---- MODULE Spec2Model ----
(***************************************************************************)
(* A model of detd: the reservation manager (Manager, InterfaceManager),   *)
(* the schedule builder (Schedule, Scheduler), the mapping allocators      *)
(* (Mapping / MappingFixed, MappingFlexible,                               *)
(* MappingMultiqueueTrafficClassExclusive) and the request dispatcher      *)
(* (ServiceRequestHandler).                                                *)
(*                                                                         *)
(* Times are nanoseconds.  Python lists are sequences (index 1 is Python   *)
(* index 0).  An object reference (a Traffic held by a Slot) is the        *)
(* object's id: Traffic.__eq__ compares bound methods and is therefore     *)
(* true only for one and the same object.                                  *)
(***************************************************************************)
EXTENDS Integers, Sequences, FiniteSets, TLC

\* ------------------------------------------------------------------------
\* Program constants
\* ------------------------------------------------------------------------
s_to_ns == 1000000000

Bytes_to_bits == 8

Gbps_to_bps == 1000000000

\* Device.rate: hard-coded to 1 Gbps for every device
DeviceRate == 1 * Gbps_to_bps

\* ------------------------------------------------------------------------
\* Bounds of the model
\* ------------------------------------------------------------------------
\* Largest number of entries of Scheduler.traffics (best effort included)
\* for which a further add_talker request is still explored.
MaxTraffics == 3

\* ------------------------------------------------------------------------
\* Helpers for Python lists
\* ------------------------------------------------------------------------
Range(s) == {s[i] : i \in 1..Len(s)}

\* list.pop(0) leaves the tail
Tail0(s) == SubSeq(s, 2, Len(s))

\* list.insert(0, x)
Insert0(s, x) == <<x>> \o s

\* list(range(a, b))
RangeList(a, b) == [i \in 1..(b - a) |-> a + i - 1]

\* The value of F at x: x is computed once and named in F
With(x, F(_)) == CHOOSE v \in {F(y) : y \in {x}} : TRUE

\* del s[i] for the 1-based index i
RemoveAt(s, i) == SubSeq(s, 1, i - 1) \o SubSeq(s, i + 1, Len(s))

\* ------------------------------------------------------------------------
\* Traffic, Slot, Schedule
\* ------------------------------------------------------------------------
\* Traffic(TrafficType.BEST_EFFORT) as completed by Scheduler.__init__
BestEffortTraffic ==
    [type |-> "BEST_EFFORT", id |-> 0, socket_prio |-> 0, queue |-> 0, tc |-> 0]

\* Traffic(TrafficType.SCHEDULED, config) followed by traffic.tc = tc.
\* length is a true division; the rate is a whole multiple of s_to_ns, so
\* the quotient is the exact value of the float.
Traffic(id, config, tc) ==
    LET length == (config.size * Bytes_to_bits) \div (DeviceRate \div s_to_ns)
    IN  [type |-> "SCHEDULED", id |-> id,
         interval |-> config.interval, size |-> config.size,
         start |-> config.txoffset, vid |-> config.vid, pcp |-> config.pcp,
         tc |-> tc, length |-> length, end |-> config.txoffset + length]

\* Slot(start, end, traffic): int() of values that are whole numbers here
Slot(start, end, traffic) ==
    [start |-> start, end |-> end, length |-> end - start, traffic |-> traffic]

\* Schedule(): an empty list with period 0
EmptySchedule == [slots |-> <<>>, period |-> 0]

\* list.sort() with Slot.__lt__ (start only): stable
RECURSIVE InsertSlot(_, _)
InsertSlot(sorted, x) ==
    IF sorted = <<>> THEN <<x>>
    ELSE LET last == sorted[Len(sorted)]
         IN  IF x.start < last.start
             THEN Append(InsertSlot(SubSeq(sorted, 1, Len(sorted) - 1), x), last)
             ELSE Append(sorted, x)

RECURSIVE sort(_)
sort(s) ==
    IF s = <<>> THEN <<>>
    ELSE InsertSlot(sort(SubSeq(s, 1, Len(s) - 1)), s[Len(s)])

\* Schedule.add_scheduled_traffic
add_scheduled_traffic(slots, start, end, traffic) ==
    sort(Append(slots, Slot(start, end, traffic)))

\* The while loop of Schedule.add_best_effort_padding, from index i (1-based)
\* over the first n slots; ok = FALSE is the AssertionError, with the list as
\* it is when the assertion fails.
RECURSIVE PaddingLoop(_, _, _, _, _)
PaddingLoop(slots, i, n, end, traffic) ==
    IF i > n THEN [slots |-> slots, ok |-> TRUE]
    ELSE IF ~(end <= slots[i].start) THEN [slots |-> slots, ok |-> FALSE]
    ELSE IF end < slots[i].start
         THEN PaddingLoop(Append(slots, Slot(end, slots[i].start, traffic)),
                          i + 1, n, slots[i].end, traffic)
         ELSE PaddingLoop(slots, i + 1, n, slots[i].end, traffic)

\* Schedule.add_best_effort_padding: err is "none", "AssertionError" or
\* "IndexError" (self[-1] of an empty list)
add_best_effort_padding(sched, traffic) ==
    With(PaddingLoop(sched.slots, 1, Len(sched.slots), 0, traffic), LAMBDA loop :
        IF ~loop.ok
        THEN [slots |-> loop.slots, period |-> sched.period, err |-> "AssertionError"]
        ELSE With(sort(loop.slots), LAMBDA sorted :
                 IF sorted = <<>>
                 THEN [slots |-> sorted, period |-> sched.period, err |-> "IndexError"]
                 ELSE IF sorted[Len(sorted)].end < sched.period
                      THEN [slots |-> Append(sorted,
                                Slot(sorted[Len(sorted)].end, sched.period, traffic)),
                            period |-> sched.period, err |-> "none"]
                      ELSE [slots |-> sorted, period |-> sched.period, err |-> "none"]))

\* The traffic object a slot refers to
TrafficById(traffics, id) ==
    CHOOSE t \in Range(traffics) : t.id = id

\* Only the start of the new traffic is looked at
conflicts_with_traffic_start(sched, traffics, traffic) ==
    IF traffic.type = "BEST_EFFORT" THEN FALSE
    ELSE \E i \in 1..Len(sched.slots) :
            /\ sched.slots[i].traffic # 0
            /\ traffic.start >= sched.slots[i].start
            /\ traffic.start <= sched.slots[i].end

\* Schedule.conflicts_with_traffic
conflicts_with_traffic(sched, traffics, traffic) ==
    IF traffic.type = "BEST_EFFORT" THEN FALSE
    ELSE \E i \in 1..Len(sched.slots) :
            /\ sched.slots[i].traffic # 0
            /\ \/ /\ traffic.start >= sched.slots[i].start
                  /\ traffic.start <= sched.slots[i].end
               \/ /\ traffic.end >= sched.slots[i].start
                  /\ traffic.end <= sched.slots[i].end

\* The gates of the scheduled traffics only: best effort slots are skipped
opens_gate_of_scheduled_traffic(sched) ==
    \E i \in 1..Len(sched.slots) :
        /\ sched.slots[i].traffic # 0
        /\ \E j \in 1..(i - 1) : sched.slots[j].traffic = sched.slots[i].traffic
        /\ sched.slots[i - 1].traffic # sched.slots[i].traffic

\* Schedule.opens_gate_multiple_times_per_cycle
opens_gate_multiple_times_per_cycle(sched) ==
    \E i \in 1..Len(sched.slots) :
        /\ \E j \in 1..(i - 1) : sched.slots[j].traffic = sched.slots[i].traffic
        /\ sched.slots[i - 1].traffic # sched.slots[i].traffic

\* math.gcd
RECURSIVE gcd(_, _)
gcd(a, b) == IF b = 0 THEN a ELSE gcd(b, a % b)

\* lcm(numbers), folded from the left; err is the ZeroDivisionError of
\* "// math.gcd(lcm, n)" when both are 0
RECURSIVE LcmFrom(_, _, _)
LcmFrom(acc, numbers, i) ==
    IF i > Len(numbers) THEN [val |-> acc, err |-> "none"]
    ELSE IF gcd(acc, numbers[i]) = 0 THEN [val |-> acc, err |-> "ZeroDivisionError"]
    ELSE LcmFrom((acc * numbers[i]) \div gcd(acc, numbers[i]), numbers, i + 1)

\* The product of the numbers, which is their least common multiple only
\* when they are pairwise coprime
RECURSIVE ProductFrom(_, _)
ProductFrom(numbers, i) ==
    IF i > Len(numbers) THEN 1 ELSE numbers[i] * ProductFrom(numbers, i + 1)

lcm_product(numbers) == [val |-> ProductFrom(numbers, 1), err |-> "none"]

lcm(numbers) == LcmFrom(1, numbers, 1)

\* [t for t in self.traffics if t.type == TrafficType.SCHEDULED]
RECURSIVE Scheduled(_)
Scheduled(traffics) ==
    IF traffics = <<>> THEN <<>>
    ELSE IF traffics[1].type = "SCHEDULED"
         THEN <<traffics[1]>> \o Scheduled(Tail0(traffics))
         ELSE Scheduled(Tail0(traffics))

\* One slot per traffic, whatever the period
SlotsOfTraffic_once(slots, traffic, i, n) ==
    IF i >= n THEN slots
    ELSE add_scheduled_traffic(slots, traffic.start,
                               traffic.start + traffic.length, traffic.id)

\* The inner while loop of Scheduler.reschedule for one traffic
RECURSIVE SlotsOfTraffic(_, _, _, _)
SlotsOfTraffic(slots, traffic, i, n) ==
    IF i >= n THEN slots
    ELSE SlotsOfTraffic(
            add_scheduled_traffic(slots,
                                  traffic.start + traffic.interval * i,
                                  traffic.start + traffic.interval * i + traffic.length,
                                  traffic.id),
            traffic, i + 1, n)

\* The for loop of Scheduler.reschedule from the k-th scheduled traffic;
\* "period / traffic.interval" raises ZeroDivisionError for interval 0
RECURSIVE SlotsOfAll(_, _, _, _)
SlotsOfAll(slots, scheduled, k, period) ==
    IF k > Len(scheduled) THEN [slots |-> slots, err |-> "none"]
    ELSE IF scheduled[k].interval = 0
         THEN [slots |-> slots, err |-> "ZeroDivisionError"]
         ELSE SlotsOfAll(SlotsOfTraffic(slots, scheduled[k], 0,
                                        period \div scheduled[k].interval),
                         scheduled, k + 1, period)

\* Scheduler.reschedule: the schedule it leaves in self.schedule and the
\* exception it raises, if any
reschedule(traffics) ==
    IF Len(traffics) = 1 /\ traffics[1].type = "BEST_EFFORT"
    THEN [schedule |-> EmptySchedule, err |-> "none"]
    ELSE
    With(Scheduled(traffics), LAMBDA scheduled :
    With(lcm([k \in 1..Len(scheduled) |-> scheduled[k].interval]), LAMBDA l :
        IF l.err # "none"
        THEN [schedule |-> EmptySchedule, err |-> l.err]
        ELSE
        With(SlotsOfAll(<<>>, scheduled, 1, l.val), LAMBDA gen :
            IF gen.err # "none"
            THEN [schedule |-> [slots |-> gen.slots, period |-> l.val],
                  err |-> gen.err]
            ELSE
            With(add_best_effort_padding([slots |-> gen.slots, period |-> l.val], 0),
                 LAMBDA pad :
                     [schedule |-> [slots |-> pad.slots, period |-> pad.period],
                      err |-> pad.err]))))

\* Scheduler.__init__
NewScheduler == [traffics |-> <<BestEffortTraffic>>, schedule |-> EmptySchedule]

\* Scheduler.add: the scheduler it leaves and the exception it raises
SchedulerAdd(scheduler, traffic) ==
    IF conflicts_with_traffic(scheduler.schedule, scheduler.traffics, traffic)
    THEN [scheduler |-> scheduler, err |-> "ValueError"]
    ELSE With(Append(scheduler.traffics, traffic), LAMBDA traffics :
         With(reschedule(traffics), LAMBDA r :
             [scheduler |-> [traffics |-> traffics, schedule |-> r.schedule],
              err |-> r.err]))

\* Scheduler.remove: list.remove drops the first entry equal to the traffic,
\* that is the traffic object itself
SchedulerRemove(scheduler, traffic) ==
    With(RemoveAt(scheduler.traffics,
                  CHOOSE k \in 1..Len(scheduler.traffics) :
                      scheduler.traffics[k].id = traffic.id),
         LAMBDA traffics :
             With(reschedule(traffics), LAMBDA r :
                 [scheduler |-> [traffics |-> traffics, schedule |-> r.schedule],
                  err |-> r.err]))

\* ------------------------------------------------------------------------
\* Devices
\* ------------------------------------------------------------------------
\* NUM_TX_QUEUES of the device classes
IntelMgbeEhl_NUM_TX_QUEUES == 8

IntelI225_NUM_TX_QUEUES == 4

IntelI226_NUM_TX_QUEUES == 4

\* IntelI225.HARDWARE_LATENCY_MIN and HARDWARE_LATENCY_MAX, in ns
IntelI225_HARDWARE_LATENCY_MIN == 1000

IntelI225_HARDWARE_LATENCY_MAX == 2000

num_tx_queues(device) ==
    CASE device = "IntelMgbeEhl" -> IntelMgbeEhl_NUM_TX_QUEUES
      [] device = "IntelI225"    -> IntelI225_NUM_TX_QUEUES
      [] device = "IntelI226"    -> IntelI226_NUM_TX_QUEUES

\* ------------------------------------------------------------------------
\* Mapping: MappingFixed (the Mapping of manager.py), MappingFlexible
\* (MappingNaive) and MappingMultiqueueTrafficClassExclusive
\* ------------------------------------------------------------------------
\* A dict is a function on its keys
DictSet(d, k, v) == [x \in (DOMAIN d) \cup {k} |-> IF x = k THEN v ELSE d[x]]

DictDel(d, k) == [x \in (DOMAIN d) \ {k} |-> d[x]]

\* list.remove(x): drops the first occurrence
RemoveFirst(s, x) ==
    RemoveAt(s, CHOOSE i \in 1..Len(s) : s[i] = x /\ \A j \in 1..(i - 1) : s[j] # x)

\* list(reversed(range(0, n)))
RECURSIVE ReversedRange(_)
ReversedRange(n) == IF n <= 0 THEN <<>> ELSE <<n - 1>> \o ReversedRange(n - 1)

\* Pools that hold one item per Tx queue, the best effort one included
MappingFixed_all_queues(device) ==
    LET n == num_tx_queues(device)
        t2s == <<0>> \o [i \in 1..(n - 1) |-> 7 + (i - 1)]
    IN  [variant |-> "MappingFixed",
         device |-> device,
         available_socket_prios |-> RangeList(7, 7 + n),
         available_tcs |-> RangeList(1, 1 + n),
         available_tx_queues |-> RangeList(1, 1 + n),
         tc_to_soprio |-> t2s,
         soprio_to_pcp |-> [s \in Range(t2s) |->
                               (CHOOSE i \in 1..Len(t2s) : t2s[i] = s) - 1],
         tc_to_hwq |-> [i \in 1..n |-> [offset |-> i - 1, num_queues |-> 1]],
         max_stream_queues |-> 0]

\* MappingFixed.__init__
MappingFixed(device) ==
    LET n == num_tx_queues(device)
        t2s == <<0>> \o [i \in 1..(n - 1) |-> 7 + (i - 1)]
    IN  [variant |-> "MappingFixed",
     device |-> device,
         available_socket_prios |-> RangeList(7, 7 + n - 1),
         available_tcs |-> RangeList(1, 1 + n - 1),
         available_tx_queues |-> RangeList(1, 1 + n - 1),
         tc_to_soprio |-> t2s,
         soprio_to_pcp |-> [s \in Range(t2s) |->
                               (CHOOSE i \in 1..Len(t2s) : t2s[i] = s) - 1],
         tc_to_hwq |-> [i \in 1..n |-> [offset |-> i - 1, num_queues |-> 1]],
         max_stream_queues |-> 0]

\* MappingMultiqueueTrafficClassExclusive.__init__
MappingMultiqueueTrafficClassExclusive(device) ==
    [variant |-> "MappingMultiqueueTrafficClassExclusive",
     device |-> device,
     available_socket_prios |-> <<7, 8, 9, 10, 11, 12, 13>>,
     available_tcs |-> <<1, 2>>,
     available_tx_queues |-> <<0, 1>>,
     tc_to_soprio |-> <<0, 7, 8>>,
     soprio_to_pcp |-> (0 :> 0) @@ (9 :> 1) @@ (10 :> 2) @@ (11 :> 3) @@
                       (12 :> 4) @@ (13 :> 5) @@ (8 :> 6) @@ (7 :> 7),
     tc_to_hwq |-> <<[offset |-> 2, num_queues |-> 2],
                     [offset |-> 0, num_queues |-> 1],
                     [offset |-> 1, num_queues |-> 1]>>,
     max_stream_queues |-> 2]

\* MappingFlexible.__init__ (this class has no available_tcs and no
\* max_stream_queues; they are the empty list and 0 here)
MappingFlexible(device) ==
    [variant |-> "MappingFlexible",
     device |-> device,
     available_socket_prios |-> RangeList(7, 256),
     available_tcs |-> <<>>,
     available_tx_queues |-> ReversedRange(num_tx_queues(device)),
     tc_to_soprio |-> <<0>>,
     soprio_to_pcp |-> (0 :> 0),
     tc_to_hwq |-> <<[offset |-> 0, num_queues |-> num_tx_queues(device)]>>,
     max_stream_queues |-> 0]

\* The property soprio_to_tc: later traffic classes overwrite earlier ones;
\* err is the IndexError of "mapping[soprio] = tc" for soprio >= 16
soprio_to_tc(m) ==
    IF \E tc \in 1..Len(m.tc_to_soprio) : m.tc_to_soprio[tc] >= 16
    THEN [err |-> "IndexError", mapping |-> <<>>]
    ELSE [err |-> "none",
          mapping |-> [i \in 1..16 |->
             IF \E tc \in 1..Len(m.tc_to_soprio) : m.tc_to_soprio[tc] = i - 1
             THEN (CHOOSE tc \in 1..Len(m.tc_to_soprio) :
                      /\ m.tc_to_soprio[tc] = i - 1
                      /\ \A u \in (tc + 1)..Len(m.tc_to_soprio) :
                            m.tc_to_soprio[u] # i - 1) - 1
             ELSE 0]]

\* A result of a mapping method: the mapping it leaves, the exception it
\* raises ("none" if it returns) and the value it returns
MResult(m, err, val) == [m |-> m, err |-> err, val |-> val]

\* Takes the last socket priority of the list: pop() for pop(0)
assign_soprio_and_map_pops_last(m, pcp) ==
    IF Len(m.available_socket_prios) = 0 THEN MResult(m, "IndexError", 0)
    ELSE MResult([m EXCEPT !.available_socket_prios = SubSeq(@, 1, Len(@) - 1)],
                 "none", m.available_socket_prios[Len(m.available_socket_prios)])

\* MappingFixed.assign_soprio_and_map (the same code in
\* MappingMultiqueueTrafficClassExclusive)
assign_soprio_and_map(m, pcp) ==
    IF Len(m.available_socket_prios) = 0 THEN MResult(m, "IndexError", 0)
    ELSE MResult([m EXCEPT !.available_socket_prios = Tail0(@)], "none",
                 m.available_socket_prios[1])

\* Gives the socket priority back at the tail of the list
unmap_and_free_soprio_appends(m, soprio) ==
    MResult([m EXCEPT !.available_socket_prios = Append(@, soprio)], "none", 0)

\* MappingFixed.unmap_and_free_soprio
unmap_and_free_soprio(m, soprio) ==
    MResult([m EXCEPT !.available_socket_prios = Insert0(@, soprio)], "none", 0)

\* Records the socket priority of the new traffic class in tc_to_soprio
assign_tc_and_map_records(m, soprio, traffics) ==
    IF Len(m.available_tcs) = 0 THEN MResult(m, "IndexError", 0)
    ELSE MResult([m EXCEPT !.available_tcs = Tail0(@),
                           !.tc_to_soprio = Append(@, soprio)],
                 "none", m.available_tcs[1])

\* MappingFixed.assign_tc_and_map
assign_tc_and_map(m, soprio, traffics) ==
    IF Len(m.available_tcs) = 0 THEN MResult(m, "IndexError", 0)
    ELSE MResult([m EXCEPT !.available_tcs = Tail0(@)], "none", m.available_tcs[1])

\* MappingFixed.unmap_and_free_tc
unmap_and_free_tc(m, tc, soprio) ==
    MResult([m EXCEPT !.available_tcs = Insert0(@, tc)], "none", 0)

\* MappingFixed.assign_queue_and_map
assign_queue_and_map(m, tc) ==
    IF Len(m.available_tx_queues) = 0 THEN MResult(m, "IndexError", 0)
    ELSE MResult([m EXCEPT !.available_tx_queues = Tail0(@)], "none",
                 m.available_tx_queues[1])

\* Returns without giving the queue back
unmap_and_free_queue_keeps(m, queue) ==
    IF Len(m.tc_to_hwq) = 1 THEN MResult(m, "IndexError", 0)
    ELSE MResult(m, "none", 0)

\* MappingFixed.unmap_and_free_queue
unmap_and_free_queue(m, queue) ==
    IF Len(m.tc_to_hwq) = 1 THEN MResult(m, "IndexError", 0)
    ELSE MResult([m EXCEPT !.available_tx_queues = Insert0(@, queue)], "none", 0)

\* MappingMultiqueueTrafficClassExclusive.unmap_and_free_queue
Exclusive_unmap_and_free_queue(m, queue) ==
    IF Len(m.available_tx_queues) = m.max_stream_queues
    THEN MResult(m, "IndexError", 0)
    ELSE MResult([m EXCEPT !.available_tx_queues = Insert0(@, queue)], "none", 0)

\* MappingFlexible.assign_soprio_and_map
Flexible_assign_soprio_and_map(m, pcp) ==
    IF ~(Len(m.available_socket_prios) > 0) THEN MResult(m, "AssertionError", 0)
    ELSE MResult([m EXCEPT !.available_socket_prios = Tail0(@),
                           !.soprio_to_pcp = DictSet(@, m.available_socket_prios[1], pcp)],
                 "none", m.available_socket_prios[1])

\* MappingFlexible.unmap_and_free_soprio
Flexible_unmap_and_free_soprio(m, soprio) ==
    IF soprio \notin DOMAIN m.soprio_to_pcp THEN MResult(m, "KeyError", 0)
    ELSE MResult([m EXCEPT !.soprio_to_pcp = DictDel(@, soprio),
                           !.available_socket_prios = Append(@, soprio)],
                 "none", 0)

\* MappingFlexible.assign_tc_and_map
Flexible_assign_tc_and_map(m, soprio, traffics) ==
    MResult([m EXCEPT !.tc_to_soprio = Append(@, soprio)], "none", Len(traffics))

\* MappingFlexible.unmap_and_free_tc
Flexible_unmap_and_free_tc(m, soprio) ==
    IF ~(Len(m.tc_to_soprio) > 1) THEN MResult(m, "AssertionError", 0)
    ELSE IF soprio \notin Range(m.tc_to_soprio) THEN MResult(m, "ValueError", 0)
    ELSE MResult([m EXCEPT !.tc_to_soprio = RemoveFirst(@, soprio)], "none", 0)

\* MappingFlexible.assign_queue_and_map
Flexible_assign_queue_and_map(m, tc) ==
    IF Len(m.available_tx_queues) = 1 THEN MResult(m, "IndexError", 0)
    ELSE LET new_offset == m.tc_to_hwq[1].num_queues - 1
         IN  MResult([m EXCEPT
                        !.available_tx_queues = Tail0(@),
                        !.tc_to_hwq = <<[offset |-> @[1].offset, num_queues |-> new_offset],
                                        [offset |-> new_offset, num_queues |-> 1]>>
                                      \o Tail0(@)],
                     "none", m.available_tx_queues[1])

\* unmap_and_free_queue that deletes the last entry of tc_to_hwq instead of
\* the entry at index 1
Flexible_unmap_and_free_queue_last(m, tc) ==
    IF Len(m.tc_to_hwq) = 1 THEN MResult(m, "IndexError", 0)
    ELSE MResult([m EXCEPT
                    !.tc_to_hwq = <<[offset |-> @[1].offset,
                                     num_queues |-> @[1].num_queues + 1]>>
                                  \o SubSeq(@, 2, Len(@) - 1),
                    !.available_tx_queues =
                        Append(@, @[Len(@)] + 1)],
                 "none", 0)

\* MappingFlexible.unmap_and_free_queue
Flexible_unmap_and_free_queue(m, tc) ==
    IF Len(m.tc_to_hwq) = 1 THEN MResult(m, "IndexError", 0)
    ELSE MResult([m EXCEPT
                    !.tc_to_hwq = <<[offset |-> @[1].offset,
                                     num_queues |-> @[1].num_queues + 1]>>
                                  \o SubSeq(@, 3, Len(@)),
                    !.available_tx_queues =
                        Append(@, @[Len(@)] + 1)],
                 "none", 0)

\* assign_and_map of the three classes: the three steps in order, an
\* exception of a step leaves the mapping as the earlier steps made it.
\* val is <<soprio, tc, queue>>.
assign_and_map(m, pcp, traffics) ==
    With(IF m.variant = "MappingFlexible"
         THEN Flexible_assign_soprio_and_map(m, pcp)
         ELSE assign_soprio_and_map(m, pcp), LAMBDA r1 :
        IF r1.err # "none" THEN MResult(r1.m, r1.err, <<>>)
        ELSE
        With(IF m.variant = "MappingFlexible"
             THEN Flexible_assign_tc_and_map(r1.m, r1.val, traffics)
             ELSE assign_tc_and_map(r1.m, r1.val, traffics), LAMBDA r2 :
            IF r2.err # "none" THEN MResult(r2.m, r2.err, <<>>)
            ELSE
            With(IF m.variant = "MappingFlexible"
                 THEN Flexible_assign_queue_and_map(r2.m, r2.val)
                 ELSE assign_queue_and_map(r2.m, r2.val), LAMBDA r3 :
                IF r3.err # "none" THEN MResult(r3.m, r3.err, <<>>)
                ELSE MResult(r3.m, "none", <<r1.val, r2.val, r3.val>>))))

\* unmap_and_free of the three classes: queue, then tc, then soprio
unmap_and_free(m, soprio, tc, queue) ==
    With(CASE m.variant = "MappingFlexible" ->
                  Flexible_unmap_and_free_queue(m, queue)
           [] m.variant = "MappingMultiqueueTrafficClassExclusive" ->
                  Exclusive_unmap_and_free_queue(m, queue)
           [] OTHER -> unmap_and_free_queue(m, queue), LAMBDA r1 :
        IF r1.err # "none" THEN r1
        ELSE
        With(IF m.variant = "MappingFlexible"
             THEN Flexible_unmap_and_free_tc(r1.m, soprio)
             ELSE unmap_and_free_tc(r1.m, tc, soprio), LAMBDA r2 :
            IF r2.err # "none" THEN r2
            ELSE IF m.variant = "MappingFlexible"
                 THEN Flexible_unmap_and_free_soprio(r2.m, soprio)
                 ELSE unmap_and_free_soprio(r2.m, soprio)))

\* ------------------------------------------------------------------------
\* Device.supports_schedule
\* ------------------------------------------------------------------------
\* IntelMgbeEhl.supports_schedule
IntelMgbeEhl_supports_schedule(schedule) == TRUE

IntelI225_supports_schedule_any(schedule) == TRUE

\* IntelI225.supports_schedule
IntelI225_supports_schedule(schedule) ==
    IF opens_gate_multiple_times_per_cycle(schedule) THEN FALSE ELSE TRUE

\* A supports_schedule that accepts no schedule opening a gate twice
IntelI226_supports_schedule_once(scheduler, mapping) ==
    ~opens_gate_multiple_times_per_cycle(scheduler.schedule)

\* IntelI226.supports_schedule; the device's mapping is always the
\* MappingMultiqueueTrafficClassExclusive set by IntelI226.__init__
IntelI226_supports_schedule(scheduler, mapping) ==
    IF ~opens_gate_multiple_times_per_cycle(scheduler.schedule) THEN TRUE
    ELSE IF /\ mapping.variant = "MappingMultiqueueTrafficClassExclusive"
            /\ Len(scheduler.traffics) <= 3
            /\ Len(scheduler.schedule.slots) <= 4
         THEN TRUE
         ELSE FALSE

\* self.interface.device.supports_schedule(self.scheduler.schedule) of
\* InterfaceManager.add_talker, for the devices Device.from_pci_id builds
supports_schedule(device, schedule) ==
    CASE device = "IntelMgbeEhl" -> IntelMgbeEhl_supports_schedule(schedule)
      [] device = "IntelI225"    -> IntelI225_supports_schedule(schedule)

\* ------------------------------------------------------------------------
\* SystemConfigurator: the configuration of one interface in the kernel
\* ------------------------------------------------------------------------
\* Nothing configured yet: no device settings, no qdisc, no VLAN interface
NoQdisc == [slots |-> <<>>, period |-> -1]

\* steps: the calls the latest SystemConfigurator.setup made on its
\* configurators, in order; vlan_adds: per VLAN id, how many "ip link add"
\* commands have created its interface
NewSystem ==
    [device |-> FALSE, qdisc |-> NoQdisc, vlans |-> {}, vlan_adds |-> << >>,
     steps |-> << >>]

Step(what, op) == [what |-> what, op |-> op]

\* How many times the VLAN interface of vid was created
VlanAdds(sys, vid) == IF vid \in DOMAIN sys.vlan_adds THEN sys.vlan_adds[vid] ELSE 0

\* SystemConfigurator.setup: device, then qdisc, then vlan.  sysfail names
\* the step whose command raises subprocess.CalledProcessError ("none": no
\* step raises); a failing vlan step unsets the qdisc.  device is TRUE once
\* every command of DeviceConfigurator.setup has run.
SystemConfigurator_setup(sys, mapping, scheduler, config, sysfail) ==
    IF sysfail = "device"
    THEN [sys |-> [sys EXCEPT !.steps = <<Step("device", "setup")>>],
          err |-> "CalledProcessError"]
    ELSE IF sysfail = "qdisc"
    THEN [sys |-> [sys EXCEPT !.device = TRUE,
                              !.steps = <<Step("device", "setup"),
                                          Step("qdisc", "setup")>>],
          err |-> "CalledProcessError"]
    ELSE IF sysfail = "vlan"
    THEN [sys |-> [sys EXCEPT !.device = TRUE, !.qdisc = NoQdisc,
                              !.steps = <<Step("device", "setup"),
                                          Step("qdisc", "setup"),
                                          Step("vlan", "setup"),
                                          Step("qdisc", "unset")>>],
          err |-> "CalledProcessError"]
    ELSE [sys |-> [sys EXCEPT !.device = TRUE,
                              !.qdisc = scheduler.schedule,
                              !.vlans = @ \cup {config.vid},
                              !.vlan_adds = DictSet(@, config.vid,
                                                    VlanAdds(sys, config.vid) + 1),
                              !.steps = <<Step("device", "setup"),
                                          Step("qdisc", "setup"),
                                          Step("vlan", "setup")>>],
          err |-> "none"]

\* ------------------------------------------------------------------------
\* InterfaceManager
\* ------------------------------------------------------------------------
\* The mapping an InterfaceManager is built with: Mapping(self.interface),
\* the MappingFixed, for every device; the mapping attribute of the device
\* is not read
NewMapping(device) == MappingFixed(device)

\* InterfaceManager.__init__
InterfaceManager(interface) ==
    [interface |-> interface,
     mapping |-> NewMapping(interface.device),
     scheduler |-> NewScheduler,
     system |-> NewSystem]

\* A new object is a Traffic no list entry is identical to
NewId(traffics) ==
    CHOOSE id \in 1..(Len(traffics) + 1) :
        /\ \A t \in Range(traffics) : t.id # id
        /\ \A j \in 1..(id - 1) : \E t \in Range(traffics) : t.id = j

\* "{}.{}".format(self.interface.name, config.stream.vid)
VlanInterface_bare(name, vid) == name

VlanInterface(name, vid) == name \o "." \o ToString(vid)

\* What a call leaves and gives: the InterfaceManager after the call, the
\* exception raised ("none" when the call returns) and the returned pair
Outcome(im, err, vlan_interface, soprio) ==
    [im |-> im, err |-> err, vlan_interface |-> vlan_interface, soprio |-> soprio]

\* The two statements "self.scheduler.remove(traffic)" and
\* "self.mapping.unmap_and_free(soprio, traffic.tc, queue)" of the error
\* paths of add_talker, then "raise err"; an exception of either statement
\* is raised instead
RemoveAndUnmap(im, scheduler, mapping, traffic, res, err) ==
    With(SchedulerRemove(scheduler, traffic), LAMBDA rm :
        IF rm.err # "none"
        THEN Outcome([im EXCEPT !.scheduler = rm.scheduler, !.mapping = mapping],
                     rm.err, "", 0)
        ELSE With(unmap_and_free(mapping, res[1], traffic.tc, res[3]), LAMBDA un :
                 Outcome([im EXCEPT !.scheduler = rm.scheduler, !.mapping = un.m],
                         IF un.err # "none" THEN un.err ELSE err, "", 0)))

\* InterfaceManager.add_talker.  sysfail is the step of self.runner.setup
\* that fails, if any.
add_talker(im, config, sysfail) ==
    With(assign_and_map(im.mapping, config.pcp, im.scheduler.traffics), LAMBDA as :
        IF as.err # "none"
        THEN Outcome([im EXCEPT !.mapping = as.m], as.err, "", 0)
        ELSE
        With(Traffic(NewId(im.scheduler.traffics), config, as.val[2]), LAMBDA traffic :
        With(SchedulerAdd(im.scheduler, traffic), LAMBDA ad :
            IF ad.err # "none"
            THEN With(unmap_and_free(as.m, as.val[1], traffic.tc, as.val[3]),
                      LAMBDA un :
                          Outcome([im EXCEPT !.scheduler = ad.scheduler,
                                             !.mapping = un.m],
                                  IF un.err # "none" THEN un.err ELSE ad.err, "", 0))
            ELSE IF ~supports_schedule(im.interface.device, ad.scheduler.schedule)
            THEN RemoveAndUnmap(im, ad.scheduler, as.m, traffic, as.val, "TypeError")
            ELSE
            With(SystemConfigurator_setup(im.system, as.m, ad.scheduler,
                                          config, sysfail), LAMBDA st :
                IF st.err # "none"
                THEN RemoveAndUnmap([im EXCEPT !.system = st.sys], ad.scheduler,
                                    as.m, traffic, as.val, "RuntimeError")
                ELSE Outcome([im EXCEPT !.system = st.sys,
                                        !.scheduler = ad.scheduler,
                                        !.mapping = as.m],
                             "none",
                             VlanInterface(im.interface.name, config.vid),
                             as.val[1])))))

\* "return vlan_interface, soprio": the tuple a successful add_talker returns
ReturnValue(out) == <<out.vlan_interface, out.soprio>>

\* ------------------------------------------------------------------------
\* Inputs
\* ------------------------------------------------------------------------
\* Interface(name): the device Device.from_pci_id builds for the PCI id of
\* the interface; eth0 is an Elkhart Lake mGBE (8086:4B30), eth1 an i225
\* (8086:0D9F)
DeviceOf(name) ==
    CASE name = "eth0" -> "IntelMgbeEhl"
      [] name = "eth1" -> "IntelI225"

Interface(name) == [name |-> name, device |-> DeviceOf(name)]

Intervals == {0, 20, 40}

Sizes == {0, 1, 3}

TxOffsets == {0, 12, 20}

Vids == {3}

Pcps == {6}

SysFails == {"none", "device", "qdisc", "vlan"}

\* Configuration(interface, stream, traffic) objects: the constructor
\* raises TypeError when txoffset > interval
Configs(names) ==
    {c \in [interface : {Interface(n) : n \in names}, interval : Intervals,
            size : Sizes, txoffset : TxOffsets, vid : Vids, pcp : Pcps] :
        ~(c.txoffset > c.interval)}

\* ------------------------------------------------------------------------
\* State
\* ------------------------------------------------------------------------
VARIABLES
    talker_manager,   \* Manager.talker_manager: interface name -> InterfaceManager
    last,             \* outcome of the latest Manager.add_talker call
    mapping,          \* a Mapping object used on its own
    held,             \* the <<soprio, tc, queue>> its callers hold, oldest first
    listed,           \* the scheduled entries of the scheduler.traffics its
                      \* callers pass, oldest first
    mcall,            \* the latest call on it and its outcome
    lifo,             \* whether every release so far gave back the latest triple
    ncalls,           \* number of calls made on it
    pc,               \* where each thread calling Manager.add_talker is
    lock,             \* Manager.lock: the thread holding it, 0 when free
    req,              \* the request of each thread
    result,           \* what the call of each thread returned or raised
    created,          \* InterfaceManager objects created, per interface name
    test_mode,        \* Service.test_mode
    handled,          \* the latest datagram the service handled and its outcome
    applied           \* a function called on its own: its arguments and outcome

vars == <<talker_manager, last, mapping, held, listed, mcall, lifo, ncalls,
          pc, lock, req, result, created, test_mode, handled, applied>>

service_vars == <<test_mode, handled>>

manager_vars == <<talker_manager, last>>

mapping_vars == <<mapping, held, listed, mcall, lifo, ncalls>>

thread_vars == <<pc, lock, req, result, created>>

function_vars == <<applied>>

NoCall == [name |-> "", err |-> "nocall", vlan_interface |-> "", soprio |-> 0]

NoMCall == [op |-> "", err |-> "nocall", val |-> <<>>]

\* No Mapping object is used on its own
NoMapping ==
    /\ mapping = <<>>
    /\ held = <<>>
    /\ listed = <<>>
    /\ mcall = NoMCall
    /\ lifo = TRUE
    /\ ncalls = 0

\* Manager.__init__
NewManager ==
    /\ talker_manager = << >>
    /\ last = NoCall

\* No thread calls the Manager
NoThreads ==
    /\ pc = <<>>
    /\ lock = 0
    /\ req = <<>>
    /\ result = <<>>
    /\ created = <<>>

NoDatagram ==
    [kind |-> "", talker |-> FALSE, setup_socket |-> FALSE, failed |-> FALSE,
     send_failed |-> FALSE, finish_failed |-> FALSE, replies |-> << >>,
     raised |-> "none"]

\* No function is called on its own
NoFunction == applied = [name |-> ""]

\* The service has handled no datagram
NoService ==
    /\ test_mode = FALSE
    /\ handled = NoDatagram
    /\ NoFunction

Init ==
    /\ NewManager
    /\ NoMapping
    /\ NoThreads
    /\ NoService

\* The InterfaceManager Manager.add_talker works on: the registered one, or a
\* new one for the first reference to the interface
\* A lookup that builds a new InterfaceManager at every request
LookupOrCreate_always_creates(tm, interface) ==
    InterfaceManager(interface)

LookupOrCreate(tm, interface) ==
    IF interface.name \in DOMAIN tm THEN tm[interface.name]
    ELSE InterfaceManager(interface)

\* Manager.add_talker, the whole call under self.lock
ManagerAddTalker(config, sysfail) ==
    \E out \in {add_talker(LookupOrCreate(talker_manager, config.interface),
                           config, sysfail)} :
        /\ talker_manager' =
               [n \in (DOMAIN talker_manager) \cup {config.interface.name} |->
                   IF n = config.interface.name THEN out.im ELSE talker_manager[n]]
        /\ last' = [name |-> config.interface.name, err |-> out.err,
                    vlan_interface |-> out.vlan_interface, soprio |-> out.soprio]

\* A request, on an interface whose Scheduler holds at most MaxTraffics
\* traffics
AddTalker(config, sysfail) ==
    /\ Len(LookupOrCreate(talker_manager, config.interface).scheduler.traffics)
           <= MaxTraffics
    /\ ManagerAddTalker(config, sysfail)
    /\ UNCHANGED <<mapping_vars, thread_vars, service_vars, function_vars>>

Next == \E config \in Configs({"eth0"}), sysfail \in SysFails : AddTalker(config, sysfail)

Spec == Init /\ [][Next]_vars

NextI225 == \E config \in Configs({"eth1"}), sysfail \in SysFails : AddTalker(config, sysfail)

SpecI225 == Init /\ [][NextI225]_vars

\* ------------------------------------------------------------------------
\* Requests that use up the resources of an interface: streams of one
\* interval and one frame size whose offsets are NumOffsets points of the
\* cycle, requested in any order
\* ------------------------------------------------------------------------
NumOffsets == 8

MaxLater == 1

ExhaustConfigs ==
    {c \in [interface : {Interface("eth0"), Interface("eth1")}, interval : {200},
            size : {1}, txoffset : {20 * k : k \in 0..(NumOffsets - 1)},
            vid : Vids, pcp : Pcps] :
        c.interface.name = "eth1" => c.txoffset = 20}

ExhaustSysFails == {"none", "vlan"}

\* The transmission window of the request touches no window of the traffics
NonConflicting(config, traffics) ==
    \A t \in Range(Scheduled(traffics)) :
        \/ config.txoffset > t.end
        \/ config.txoffset + config.size * Bytes_to_bits < t.start

\* What is kept of one Manager.add_talker(config) call: the device and the
\* failing system command, and of the InterfaceManager before the call the
\* number of accepted streams, whether the request conflicts with none of
\* them and whether the three free lists are empty; unchanged: the call left
\* the mapping and the scheduler as they were
Requested(config, sysfail, before, after) ==
    [name |-> "add_talker",
     device |-> config.interface.device,
     sysfail |-> sysfail,
     accepted |-> Len(Scheduled(before.scheduler.traffics)),
     non_conflicting |-> NonConflicting(config, before.scheduler.traffics),
     free_lists_empty |-> /\ before.mapping.available_socket_prios = <<>>
                          /\ before.mapping.available_tcs = <<>>
                          /\ before.mapping.available_tx_queues = <<>>,
     unchanged |-> /\ after.mapping = before.mapping
                   /\ after.scheduler = before.scheduler]

InitExhaust ==
    /\ NewManager /\ NoMapping /\ NoThreads
    /\ test_mode = FALSE
    /\ handled = NoDatagram
    /\ applied = [name |-> "nocall", device |-> "", sysfail |-> "none",
                  accepted |-> 0, non_conflicting |-> FALSE,
                  free_lists_empty |-> FALSE, unchanged |-> FALSE]

\* The accepted streams of the traffics that start after txoffset
StartingLater(traffics, txoffset) ==
    {k \in DOMAIN Scheduled(traffics) : Scheduled(traffics)[k].start > txoffset}

\* A request on either interface, in any order of the offsets for which at
\* most MaxLater accepted streams of its interface start after it
AddTalkerAnyOrder(config, sysfail) ==
    /\ Cardinality(StartingLater(LookupOrCreate(talker_manager, config.interface)
                                     .scheduler.traffics, config.txoffset))
           <= MaxLater
    /\ ManagerAddTalker(config, sysfail)
    /\ applied' = Requested(config, sysfail,
                            LookupOrCreate(talker_manager, config.interface),
                            talker_manager'[config.interface.name])
    /\ UNCHANGED <<mapping_vars, thread_vars, service_vars>>

NextExhaust ==
    \E config \in ExhaustConfigs, sysfail \in ExhaustSysFails :
        AddTalkerAnyOrder(config, sysfail)

SpecExhaust == InitExhaust /\ [][NextExhaust]_vars

\* ------------------------------------------------------------------------
\* A Mapping object on its own: assign_and_map and unmap_and_free called in
\* any order on each of the classes
\* ------------------------------------------------------------------------
MaxCalls == 8

\* The Mapping objects of the devices: MappingFixed (the Mapping of an
\* InterfaceManager), MappingMultiqueueTrafficClassExclusive (IntelI226) and
\* MappingFlexible (IntelMgbeEhl)
Mappings ==
    {MappingFixed("IntelI225"), MappingFixed("IntelMgbeEhl"),
     MappingMultiqueueTrafficClassExclusive("IntelI226"),
     MappingFlexible("IntelMgbeEhl")}

\* scheduler.traffics as add_talker passes it: the best effort traffic and
\* the scheduled entries, in the order Scheduler.add appended them.  An
\* entry is the traffic class of the traffic and whether its stream holds
\* resources: a Scheduler.add that raises after its append leaves the
\* traffic in the list while add_talker gives the resources back
TrafficsOf(entries) ==
    <<BestEffortTraffic>> \o
    [k \in 1..Len(entries) |->
        [type |-> "SCHEDULED", id |-> k, tc |-> entries[k].tc]]

\* The entry of the traffic add_talker builds with the traffic class tc
ListedEntry(tc) == [tc |-> tc, holds |-> TRUE]

\* Where the entry of the i-th stream that holds resources is
EntryOfStream(entries, i) ==
    CHOOSE p \in 1..Len(entries) :
        /\ entries[p].holds
        /\ Cardinality({q \in 1..p : entries[q].holds}) = i

\* The entries after the resources of the i-th stream were given back;
\* stays: the traffic was left in the list (no Scheduler.remove), else it
\* was removed from it
Unlisted(entries, i, stays) ==
    IF stays
    THEN [entries EXCEPT ![EntryOfStream(entries, i)].holds = FALSE]
    ELSE RemoveAt(entries, EntryOfStream(entries, i))

InitMapping ==
    /\ NewManager
    /\ NoThreads
    /\ NoService
    /\ mapping \in Mappings
    /\ held = <<>>
    /\ listed = <<>>
    /\ mcall = NoMCall
    /\ lifo = TRUE
    /\ ncalls = 0

\* mapping.assign_and_map(pcp, traffics)
AssignAndMap(pcp) ==
    \E r \in {assign_and_map(mapping, pcp, TrafficsOf(listed))} :
        /\ ncalls < MaxCalls
        /\ mapping' = r.m
        /\ held' = IF r.err = "none" THEN Append(held, r.val) ELSE held
        /\ listed' = IF r.err = "none"
                     THEN Append(listed, ListedEntry(r.val[2])) ELSE listed
        /\ mcall' = [op |-> "assign_and_map", err |-> r.err, val |-> r.val]
        /\ ncalls' = ncalls + 1
        /\ UNCHANGED <<lifo, manager_vars, thread_vars, service_vars, function_vars>>

\* mapping.unmap_and_free(soprio, tc, queue) with the triple of the i-th
\* stream that holds resources.  stays: the call is the one add_talker makes
\* when the Scheduler.add that follows assign_and_map raised after its
\* append, so that the traffic stays in scheduler.traffics
UnmapAndFree(i, stays) ==
    \E r \in {unmap_and_free(mapping, held[i][1], held[i][2], held[i][3])} :
        /\ ncalls < MaxCalls
        /\ stays => /\ i = Len(held)
                    /\ mcall.op = "assign_and_map"
                    /\ mcall.err = "none"
        /\ mapping' = r.m
        /\ held' = IF r.err = "none" THEN RemoveAt(held, i) ELSE held
        /\ listed' = IF r.err = "none" THEN Unlisted(listed, i, stays) ELSE listed
        /\ mcall' = [op |-> "unmap_and_free", err |-> r.err, val |-> held[i]]
        /\ lifo' = (lifo /\ i = Len(held))
        /\ ncalls' = ncalls + 1
        /\ UNCHANGED <<manager_vars, thread_vars, service_vars, function_vars>>

NextMapping ==
    \/ \E pcp \in Pcps : AssignAndMap(pcp)
    \/ \E i \in 1..Len(held), stays \in BOOLEAN : UnmapAndFree(i, stays)

SpecMapping == InitMapping /\ [][NextMapping]_vars

\* ------------------------------------------------------------------------
\* Threads calling Manager.add_talker: each thread makes one call; the
\* statements of the call are the steps
\* ------------------------------------------------------------------------
NumThreads == 2

Threads == 1..NumThreads

ThreadNames == {"eth0", "eth1"}

ThreadRequests ==
    {[config |-> c, sysfail |-> f] :
        c \in {c \in Configs(ThreadNames) :
                  c.interval = 20 /\ c.size = 1 /\ c.txoffset \in {0, 12}},
        f \in {"none", "vlan"}}

NoResult == [err |-> "nocall", vlan_interface |-> "", soprio |-> 0]

InitThreads ==
    /\ NewManager
    /\ NoMapping
    /\ NoService
    /\ pc = [t \in Threads |-> "start"]
    /\ lock = 0
    /\ req \in [Threads -> ThreadRequests]
    /\ result = [t \in Threads |-> NoResult]
    /\ created = [n \in ThreadNames |-> 0]

\* Unguarded entry into the block
CanAcquire_unlocked(l) == TRUE

\* "with self.lock:" is entered when the lock is free
CanAcquire(l) == l = 0

\* with self.lock:
Acquire(t) ==
    /\ pc[t] = "start"
    /\ CanAcquire(lock)
    /\ lock' = t
    /\ pc' = [pc EXCEPT ![t] = "lookup"]
    /\ UNCHANGED <<manager_vars, mapping_vars, req, result, created, service_vars, function_vars>>

\* if not config.interface.name in self.talker_manager:
Lookup(t) ==
    /\ pc[t] = "lookup"
    /\ pc' = [pc EXCEPT ![t] =
                 IF req[t].config.interface.name \in DOMAIN talker_manager
                 THEN "call" ELSE "create"]
    /\ UNCHANGED <<manager_vars, mapping_vars, lock, req, result, created, service_vars, function_vars>>

\* interface_manager = InterfaceManager(config.interface)
\* self.talker_manager[config.interface.name] = interface_manager
Create(t) ==
    /\ pc[t] = "create"
    /\ talker_manager' =
           [n \in (DOMAIN talker_manager) \cup {req[t].config.interface.name} |->
               IF n = req[t].config.interface.name
               THEN InterfaceManager(req[t].config.interface)
               ELSE talker_manager[n]]
    /\ created' = [created EXCEPT ![req[t].config.interface.name] = @ + 1]
    /\ pc' = [pc EXCEPT ![t] = "call"]
    /\ UNCHANGED <<last, mapping_vars, lock, req, result, service_vars, function_vars>>

\* return self.talker_manager[config.interface.name].add_talker(config)
Call(t) ==
    /\ pc[t] = "call"
    /\ \E out \in {add_talker(talker_manager[req[t].config.interface.name],
                              req[t].config, req[t].sysfail)} :
           /\ talker_manager' =
                  [talker_manager EXCEPT ![req[t].config.interface.name] = out.im]
           /\ result' = [result EXCEPT ![t] =
                            [err |-> out.err, vlan_interface |-> out.vlan_interface,
                             soprio |-> out.soprio]]
    /\ pc' = [pc EXCEPT ![t] = "release"]
    /\ UNCHANGED <<last, mapping_vars, lock, req, created, service_vars, function_vars>>

\* The end of the with block, on return and on an exception
Release(t) ==
    /\ pc[t] = "release"
    /\ lock' = 0
    /\ pc' = [pc EXCEPT ![t] = "done"]
    /\ UNCHANGED <<manager_vars, mapping_vars, req, result, created, service_vars, function_vars>>

NextThreads ==
    \E t \in Threads :
        \/ Acquire(t)
        \/ Lookup(t)
        \/ Create(t)
        \/ Call(t)
        \/ Release(t)

SpecThreads == InitThreads /\ [][NextThreads]_vars

\* ------------------------------------------------------------------------
\* ServiceRequestHandler: one datagram is handled at a time
\* ------------------------------------------------------------------------
\* Python's None, for a string or a socket and for a number
None == "None"

NoneInt == -1

Sent(replies, raised) == [replies |-> replies, raised |-> raised]

\* self.socket.sendto(msg, addr); send_fails: sendto raises OSError
send(msg, send_fails) ==
    IF send_fails THEN Sent(<< >>, "OSError") ELSE Sent(<<msg>>, "none")

\* fd.fileno() raises AttributeError on None, before sendmsg
send_fd(msg, fd, send_fails) ==
    IF fd = None THEN Sent(<< >>, "AttributeError")
    ELSE IF send_fails THEN Sent(<< >>, "OSError")
    ELSE Sent(<<[msg EXCEPT !.fd = fd]>>, "none")

\* A datagram for the client as the proxy parses it; empty: the datagram
\* has no bytes
Packet(ok, vlan_interface, soprio) ==
    [ok |-> ok, vlan_interface |-> vlan_interface, soprio |-> soprio, fd |-> None,
     empty |-> FALSE]

\* The datagram without bytes: it parses as a message whose response has
\* ok = False, no VLAN interface and socket priority 0
EmptyDatagram == [Packet(FALSE, "", 0) EXCEPT !.empty = TRUE]

\* A finish that sends nothing
finish_silent(finish_fails) == << >>

\* DatagramRequestHandler.finish, which runs after handle whether handle
\* returned or raised: self.socket.sendto(self.wfile.getvalue(),
\* self.client_address) with nothing written to wfile.  finish_fails: the
\* sendto raises OSError, as it does when the client has read the reply of
\* handle and closed its socket
finish(finish_fails) == IF finish_fails THEN << >> ELSE <<EmptyDatagram>>

Built(packet, raised) == [packet |-> packet, raised |-> raised]

build_init_interface_response(ok) == Packet(ok, "", 0)

\* The fields of the response are assigned only "if fd is None"; none_field
\* is what the assignment of None to a field of the message does: "TypeError"
\* or "accepted"
build_qos_response(ok, vlan_interface, soprio, fd, none_field) ==
    IF fd = None
    THEN IF (vlan_interface = None \/ soprio = NoneInt) /\ none_field = "TypeError"
         THEN Built(Packet(ok, "", 0), "TypeError")
         ELSE Built(Packet(ok, vlan_interface, soprio), "none")
    ELSE Built(Packet(ok, "", 0), "none")

build_listener_qos_response(ok, vlan_interface, soprio, fd, none_field) ==
    IF fd = None
    THEN IF (vlan_interface = None \/ soprio = NoneInt) /\ none_field = "TypeError"
         THEN Built(Packet(ok, "", 0), "TypeError")
         ELSE Built(Packet(ok, vlan_interface, soprio), "none")
    ELSE Built(Packet(ok, "", 0), "none")

send_init_interface_response(ok, send_fails) ==
    send(build_init_interface_response(ok), send_fails)

send_qos_response(ok, vlan_interface, soprio, none_field, send_fails) ==
    With(build_qos_response(ok, vlan_interface, soprio, None, none_field),
         LAMBDA b : IF b.raised # "none" THEN Sent(<< >>, b.raised)
                    ELSE send(b.packet, send_fails))

send_qos_socket_response(ok, fd, none_field, send_fails) ==
    With(build_qos_response(ok, None, NoneInt, fd, none_field),
         LAMBDA b : IF b.raised # "none" THEN Sent(<< >>, b.raised)
                    ELSE send_fd(b.packet, fd, send_fails))

send_listener_qos_response(ok, vlan_interface, soprio, none_field, send_fails) ==
    With(build_listener_qos_response(ok, vlan_interface, soprio, None, none_field),
         LAMBDA b : IF b.raised # "none" THEN Sent(<< >>, b.raised)
                    ELSE send(b.packet, send_fails))

send_listener_qos_socket_response(ok, fd, none_field, send_fails) ==
    With(build_listener_qos_response(ok, None, NoneInt, fd, none_field),
         LAMBDA b : IF b.raised # "none" THEN Sent(<< >>, b.raised)
                    ELSE send_fd(b.packet, fd, send_fails))

\* _add_talker_socket raises; _mock_add_talker_socket returns a bound socket,
\* bind_fails: socket() or bind() raises OSError.  The value is what "sock"
\* holds after the try block
add_talker_socket(mode, bind_fails) ==
    IF mode /\ ~bind_fails THEN "socket" ELSE None

add_listener_socket(mode, bind_fails) ==
    IF mode /\ ~bind_fails THEN "socket" ELSE None

\* socket.close()
mock_socket_cleanup(sock) == IF sock = None THEN "AttributeError" ELSE "none"

\* handle_init_interface_request; raises: self.init_interface(request)
\* raises.  The except block formats the undefined name "interface"
handle_init_interface_request(raises, send_fails) ==
    IF raises THEN Sent(<< >>, "NameError")
    ELSE Sent(send_init_interface_response(TRUE, send_fails).replies, "none")

\* handle_stream_qos_request, talker and setup_socket
handle_talker_socket(sock, none_field, send_fails) ==
    Sent(send_qos_socket_response(sock # None, sock, none_field, send_fails).replies,
         mock_socket_cleanup(sock))

\* handle_stream_qos_request, talker without setup_socket; err is the
\* exception of self.add_talker(request), after which vlan_interface and
\* soprio are still None
handle_talker(err, vlan_interface, soprio, none_field, send_fails) ==
    IF err = "none"
    THEN Sent(send_qos_response(TRUE, vlan_interface, soprio,
                                none_field, send_fails).replies, "none")
    ELSE Sent(send_qos_response(FALSE, None, NoneInt,
                                none_field, send_fails).replies, "none")

\* handle_stream_qos_request, listener and setup_socket
handle_listener_socket(sock, none_field, send_fails) ==
    Sent(send_listener_qos_socket_response(sock # None, sock,
                                           none_field, send_fails).replies,
         mock_socket_cleanup(sock))

\* handle_stream_qos_request, listener without setup_socket
handle_listener(raises, vlan_interface, soprio, none_field, send_fails) ==
    IF ~raises
    THEN Sent(send_listener_qos_response(TRUE, vlan_interface, soprio,
                                         none_field, send_fails).replies, "none")
    ELSE Sent(send_listener_qos_response(FALSE, None, NoneInt,
                                         none_field, send_fails).replies, "none")

\* The fields of a StreamQosRequest
TxMins == {0, 12, 30}

Periods == {0, 20}

StreamQosRequests ==
    [interface : {"eth0"}, period : Periods, size : {1}, txmin : TxMins,
     vid : Vids, pcp : Pcps]

NoneFields == {"TypeError", "accepted"}

ServiceSysFails == {"none", "vlan"}

\* What one run of the handler leaves: setup, handle and finish.  replies
\* are the datagrams sent to the client, those of handle and then the one of
\* finish; raised is the exception that left handle.  The send of handle
\* and the send of finish fail or succeed each on its own
Handled(kind, talker, setup_socket, failed, send_fails, finish_fails, sent) ==
    [kind |-> kind, talker |-> talker, setup_socket |-> setup_socket,
     failed |-> failed, send_failed |-> send_fails, finish_failed |-> finish_fails,
     replies |-> sent.replies \o finish(finish_fails), raised |-> sent.raised]

InitService ==
    /\ NewManager
    /\ NoMapping
    /\ NoThreads
    /\ test_mode \in BOOLEAN
    /\ handled = NoDatagram
    /\ NoFunction

\* receive_request: message.ParseFromString(data) raises DecodeError
HandleUndecodable(finish_fails) ==
    /\ handled' = Handled("undecodable", FALSE, FALSE, TRUE, FALSE, finish_fails,
                          Sent(<< >>, "DecodeError"))
    /\ UNCHANGED <<manager_vars, mapping_vars, thread_vars, test_mode, function_vars>>

\* receive_request: the message has neither an init_request nor a
\* stream_qos_request and "return request" reads an unbound local
HandleNoRequest(finish_fails) ==
    /\ handled' = Handled("no_request", FALSE, FALSE, TRUE, FALSE, finish_fails,
                          Sent(<< >>, "UnboundLocalError"))
    /\ UNCHANGED <<manager_vars, mapping_vars, thread_vars, test_mode, function_vars>>

\* raises: self.init_interface(request) raises.  With test_mode it is
\* _mock_init_interface, which raises AttributeError on patching
\* DeviceConfigurator.init_interface, an attribute the class does not have
HandleInitRequest(raises, send_fails, finish_fails) ==
    /\ test_mode => raises
    /\ handled' = Handled("init_request", FALSE, FALSE, raises,
                          send_fails, finish_fails,
                          handle_init_interface_request(raises, send_fails))
    /\ UNCHANGED <<manager_vars, mapping_vars, thread_vars, test_mode, function_vars>>

HandleTalkerSocketRequest(bind_fails, none_field, send_fails, finish_fails) ==
    /\ \E sock \in {add_talker_socket(test_mode, bind_fails)} :
           handled' = Handled("stream_qos_request", TRUE, TRUE, sock = None,
                              send_fails, finish_fails,
                              handle_talker_socket(sock, none_field, send_fails))
    /\ UNCHANGED <<manager_vars, mapping_vars, thread_vars, test_mode, function_vars>>

\* _add_talker: Configuration(interface, stream, traffic) raises TypeError
\* when txoffset > interval, else Manager.add_talker(config) is called.
\* With test_mode self.add_talker is _mock_add_talker, which raises
\* AttributeError on patching DeviceConfigurator.setup_talker, an attribute
\* the class does not have, before it reads the request: Manager.add_talker
\* is not called
HandleTalkerRequest(request, sysfail, none_field, send_fails, finish_fails) ==
    /\ test_mode => sysfail = "none"
    /\ IF test_mode
       THEN /\ handled' = Handled("stream_qos_request", TRUE, FALSE, TRUE,
                                  send_fails, finish_fails,
                                  handle_talker("AttributeError", None, NoneInt,
                                                none_field, send_fails))
            /\ UNCHANGED manager_vars
       ELSE IF request.txmin > request.period
       THEN /\ handled' = Handled("stream_qos_request", TRUE, FALSE, TRUE,
                                  send_fails, finish_fails,
                                  handle_talker("TypeError", None, NoneInt,
                                                none_field, send_fails))
            /\ UNCHANGED manager_vars
       ELSE /\ Len(LookupOrCreate(talker_manager,
                                  Interface(request.interface)).scheduler.traffics)
                   <= MaxTraffics
            /\ ManagerAddTalker([interface |-> Interface(request.interface),
                                 interval |-> request.period, size |-> request.size,
                                 txoffset |-> request.txmin, vid |-> request.vid,
                                 pcp |-> request.pcp], sysfail)
            /\ handled' = Handled("stream_qos_request", TRUE, FALSE,
                                  last'.err # "none", send_fails, finish_fails,
                                  handle_talker(last'.err, last'.vlan_interface,
                                                last'.soprio, none_field, send_fails))
    /\ UNCHANGED <<mapping_vars, thread_vars, test_mode, function_vars>>

HandleListenerSocketRequest(bind_fails, none_field, send_fails, finish_fails) ==
    /\ \E sock \in {add_listener_socket(test_mode, bind_fails)} :
           handled' = Handled("stream_qos_request", FALSE, TRUE, sock = None,
                              send_fails, finish_fails,
                              handle_listener_socket(sock, none_field, send_fails))
    /\ UNCHANGED <<manager_vars, mapping_vars, thread_vars, test_mode, function_vars>>

\* raises: self.add_listener(request) raises, else it returns the VLAN
\* interface and the socket priority of the request.  With test_mode it is
\* _mock_add_listener, which raises AttributeError on patching
\* DeviceConfigurator.setup_listener, an attribute the class does not have
HandleListenerRequest(request, raises, none_field, send_fails, finish_fails) ==
    /\ test_mode => raises
    /\ handled' = Handled("stream_qos_request", FALSE, FALSE, raises,
                          send_fails, finish_fails,
                          handle_listener(raises,
                                          VlanInterface(request.interface, request.vid),
                                          request.pcp, none_field, send_fails))
    /\ UNCHANGED <<manager_vars, mapping_vars, thread_vars, test_mode, function_vars>>

NextService ==
    \/ \E finish_fails \in BOOLEAN : HandleUndecodable(finish_fails)
    \/ \E finish_fails \in BOOLEAN : HandleNoRequest(finish_fails)
    \/ \E raises \in BOOLEAN, send_fails \in BOOLEAN,
          finish_fails \in BOOLEAN :
           HandleInitRequest(raises, send_fails, finish_fails)
    \/ \E bind_fails \in BOOLEAN, none_field \in NoneFields, send_fails \in BOOLEAN,
          finish_fails \in BOOLEAN :
           HandleTalkerSocketRequest(bind_fails, none_field, send_fails, finish_fails)
    \/ \E request \in StreamQosRequests, sysfail \in ServiceSysFails,
          none_field \in NoneFields, send_fails \in BOOLEAN,
          finish_fails \in BOOLEAN :
           HandleTalkerRequest(request, sysfail, none_field, send_fails, finish_fails)
    \/ \E bind_fails \in BOOLEAN, none_field \in NoneFields, send_fails \in BOOLEAN,
          finish_fails \in BOOLEAN :
           HandleListenerSocketRequest(bind_fails, none_field, send_fails, finish_fails)
    \/ \E request \in StreamQosRequests, raises \in BOOLEAN,
          none_field \in NoneFields, send_fails \in BOOLEAN,
          finish_fails \in BOOLEAN :
           HandleListenerRequest(request, raises, none_field, send_fails, finish_fails)

SpecService == InitService /\ [][NextService]_vars

\* ------------------------------------------------------------------------
\* Properties of Manager.add_talker
\* ------------------------------------------------------------------------
\* The InterfaceManager the latest call worked on, before and after it
Before == LookupOrCreate(talker_manager, Interface(last'.name))

After == talker_manager'[last'.name]

Failed(err) == err \notin {"none", "nocall"}

\* C1: every InterfaceManager.add_talker call that fails, for whatever
\* reason, leaves the interface's Mapping (free-lists and maps) and its
\* Scheduler (traffic list, schedule slots and period) exactly as they were
\* before the call.
C1_FailedAddTalkerLeavesState ==
    [][Failed(last'.err) =>
        /\ After.mapping = Before.mapping
        /\ After.scheduler = Before.scheduler]_vars

\* The slots, in list order, tile [0, period)
Tiles(schedule) ==
    LET slots == schedule.slots
    IN  /\ slots # <<>>
        /\ slots[1].start = 0
        /\ \A i \in 1..(Len(slots) - 1) : slots[i].end = slots[i + 1].start
        /\ slots[Len(slots)].end = schedule.period

\* The latest call ended with a successful Scheduler.add (the call returned)
\* or with a successful Scheduler.remove (the rollback of a call the device
\* or the system configuration refused)
LastSchedulerOpSucceeded == last.err \in {"none", "TypeError", "RuntimeError"}

\* C2: after every successful Scheduler.add or Scheduler.remove that leaves
\* at least one scheduled traffic, the slots of the schedule, in list order,
\* tile [0, period) exactly: the first starts at 0, each slot's end is the
\* next slot's start, and the last slot ends at period.
C2_SlotsTilePeriod ==
    \A n \in DOMAIN talker_manager :
        LET scheduler == talker_manager[n].scheduler
        IN  (/\ last.name = n
             /\ LastSchedulerOpSucceeded
             /\ Scheduled(scheduler.traffics) # <<>>)
            => Tiles(scheduler.schedule)

NoSharedStart(slots) ==
    \A i, j \in 1..Len(slots) : i # j => slots[i].start # slots[j].start

NoScheduledOverlap(slots) ==
    \A i, j \in 1..Len(slots) :
        (i # j /\ slots[i].traffic # 0 /\ slots[j].traffic # 0)
        => (slots[i].end <= slots[j].start \/ slots[j].end <= slots[i].start)

\* Two scheduled traffics collide when a transmission window of one and a
\* transmission window of the other, among their repetitions inside the LCM
\* of the two intervals, have a point in common
Collide(a, b) ==
    /\ a.interval > 0
    /\ b.interval > 0
    /\ LET period == (a.interval * b.interval) \div gcd(a.interval, b.interval)
       IN  \E k \in 0..((period \div a.interval) - 1),
              m \in 0..((period \div b.interval) - 1) :
               LET astart == a.start + k * a.interval
                   bstart == b.start + m * b.interval
               IN  /\ astart < bstart + b.length
                   /\ bstart < astart + a.length

\* C3: after any successful Scheduler.add no two slots of the schedule share
\* a start and no two scheduled slots overlap, and the conflict test rejects
\* every new traffic that would collide with an already accepted traffic
\* (so no two traffics of the Scheduler's list collide), whatever their
\* intervals and frame sizes.
C3_NoSharedStartNoCollision ==
    \A n \in DOMAIN talker_manager :
        LET scheduler == talker_manager[n].scheduler
            scheduled == Scheduled(scheduler.traffics)
        IN  /\ (last.name = n /\ last.err = "none")
                => /\ NoSharedStart(scheduler.schedule.slots)
                   /\ NoScheduledOverlap(scheduler.schedule.slots)
            /\ \A i, j \in 1..Len(scheduled) :
                   i # j => ~Collide(scheduled[i], scheduled[j])

\* C8: adding a traffic T the Scheduler accepts and then removing it
\* (Scheduler.remove plus Mapping.unmap_and_free of T's socket priority,
\* traffic class and queue), as the call does when the device or the system
\* configuration refuses T, yields exactly the state before the add: the
\* same free-lists in the same order, the same maps, the same schedule slots
\* and period, and the same set of configured VIDs.
C8_AddThenRemoveRestores ==
    [][last'.err \in {"TypeError", "RuntimeError"} =>
        /\ After.mapping = Before.mapping
        /\ After.scheduler = Before.scheduler
        /\ After.system.vlans = Before.system.vlans]_vars

\* C8 witness: T was added to and removed from an interface that already
\* carries an accepted stream
C8_Witness ==
    /\ last.err = "RuntimeError"
    /\ Len(talker_manager[last.name].scheduler.traffics) >= 2
    /\ talker_manager[last.name].scheduler.schedule.slots # <<>>
    /\ talker_manager[last.name].system.vlans # {}

\* ------------------------------------------------------------------------
\* Properties of a Mapping object
\* ------------------------------------------------------------------------
\* Qtx of the device the Mapping object was built for
Qtx == num_tx_queues(mapping.device)

\* Free items plus items held by streams make Qtx - 1, for each resource
PoolsConserved ==
    /\ Len(mapping.available_socket_prios) + Len(held) = Qtx - 1
    /\ Len(mapping.available_tcs) + Len(held) = Qtx - 1
    /\ Len(mapping.available_tx_queues) + Len(held) = Qtx - 1

BestEffortNeverFree ==
    /\ 0 \notin Range(mapping.available_socket_prios)
    /\ 0 \notin Range(mapping.available_tcs)

\* C4 as stated: for every Mapping variant and every state reachable through
\* assign_and_map and unmap_and_free calls (failing calls included), for each
\* of the three resources the free items plus the items held by streams are
\* Qtx - 1, and the best-effort value 0 is never in available_socket_prios
\* nor in available_tcs.
C4_EveryVariantPoolsConserved ==
    PoolsConserved /\ BestEffortNeverFree

\* C4 amended: through assign_and_map calls and unmap_and_free calls that
\* release a triple a stream holds, failing calls included, the three sums
\* are Qtx - 1 in every reachable state of a MappingFixed, the class whose
\* pools have Qtx - 1 items each; in every variant 0 is never in
\* available_socket_prios nor in available_tcs.
C4_FixedPoolsConserved ==
    /\ mapping.variant = "MappingFixed" => PoolsConserved
    /\ BestEffortNeverFree

\* C4 witness: a MappingFixed with all its items held, after a release and a
\* failed assign_and_map
C4_Witness ==
    /\ mapping.variant = "MappingFixed"
    /\ Len(held) = Qtx - 1
    /\ mcall.op = "assign_and_map"
    /\ mcall.err = "IndexError"
    /\ ncalls > Qtx

\* C6: when assign_and_map fails because one of the three pools is empty,
\* the items it had already taken in the same call are given back: the three
\* free-lists and the three maps are the same after the failed call as
\* before it, for every Mapping variant.
C6_FailedAssignGivesBack ==
    [][(mcall'.op = "assign_and_map" /\ mcall'.err # "none")
        => mapping' = mapping]_vars

\* C6 witness of the failing case: a failed assign_and_map on a mapping whose
\* socket priority pool was not empty
C6_Witness ==
    /\ mcall.op = "assign_and_map"
    /\ mcall.err # "none"
    /\ mapping.variant # "MappingFixed"

Lowest(x, free) == \A y \in Range(free) : x < y

\* The triple the latest assign_and_map returned is the lowest socket
\* priority, traffic class and Tx queue that were free when it was called
ReturnedLowestFree ==
    (mcall.op = "assign_and_map" /\ mcall.err = "none")
    => /\ Lowest(mcall.val[1], mapping.available_socket_prios)
       /\ Lowest(mcall.val[2], mapping.available_tcs)
       /\ Lowest(mcall.val[3], mapping.available_tx_queues)

\* The k-th stream that holds resources has socket priority 7 + k - 1
KthGetsSoprio ==
    \A k \in 1..Len(held) : held[k][1] = 7 + k - 1

\* C7 as stated: assign_and_map of MappingFixed always returns the lowest
\* socket priority, traffic class and Tx queue free at the time of the call,
\* after any sequence of calls in which streams are released in any order;
\* with no call but successful assign_and_map calls so far, the k-th stream
\* gets socket priority 7 + k - 1.
C7_ReturnsLowestAfterAnyRelease ==
    mapping.variant = "MappingFixed"
    => /\ ReturnedLowestFree
       /\ ncalls = Len(held) => KthGetsSoprio

\* C7 amended: the same, for MappingFixed and
\* MappingMultiqueueTrafficClassExclusive, as long as every release gave back
\* the triple allocated last (the only release add_talker makes); then the
\* k-th stream holding resources has socket priority 7 + k - 1.
C7_ReturnsLowestAfterLifoRelease ==
    (mapping.variant # "MappingFlexible" /\ lifo)
    => /\ ReturnedLowestFree
       /\ KthGetsSoprio

\* C7 witness: a MappingFixed hands out a triple again after a release
C7_Witness ==
    /\ mapping.variant = "MappingFixed"
    /\ lifo
    /\ mcall.op = "assign_and_map"
    /\ mcall.err = "none"
    /\ Len(held) = 2
    /\ ncalls = 4

\* ------------------------------------------------------------------------
\* Properties of the requests that use up the resources of an interface
\* ------------------------------------------------------------------------
\* What C5 says of the latest call: the request recorded in applied was
\* made on an interface with applied.accepted streams, and left the Manager
\* as it is now and raised last.err
ExactlyQtxMinusOne ==
    LET n == num_tx_queues(applied.device)
        now == Len(Scheduled(talker_manager[last.name].scheduler.traffics))
    IN  /\ applied.accepted <= n - 1
        /\ (/\ applied.accepted < n - 1
            /\ applied.sysfail = "none"
            /\ applied.non_conflicting)
           => /\ last.err = "none"
              /\ now = applied.accepted + 1
        /\ applied.accepted = n - 1
           => /\ last.err = "IndexError"
              /\ applied.free_lists_empty
              /\ applied.unchanged

\* C5 as stated: on an interface whose device has Qtx Tx queues, exactly
\* Qtx - 1 add_talker requests with non-conflicting offsets succeed; the next
\* one fails with IndexError and leaves the three empty free-lists, the fixed
\* maps and the schedule unchanged.
C5_ExactlyQtxMinusOneSucceed ==
    applied.name = "add_talker" => ExactlyQtxMinusOne

\* C5 amended: the same on an interface whose device accepts every schedule
\* (IntelMgbeEhl, Qtx = 8), the requests coming in any order of their
\* offsets.
C5_ExactlyQtxMinusOneSucceedOnMgbeEhl ==
    (applied.name = "add_talker" /\ applied.device = "IntelMgbeEhl")
        => ExactlyQtxMinusOne

\* C5 witness: Qtx - 1 streams were accepted on IntelMgbeEhl, not in the
\* order of their offsets, and the non-conflicting request after them failed
\* with IndexError
C5_Witness ==
    /\ last.name = "eth0"
    /\ last.err = "IndexError"
    /\ applied.name = "add_talker"
    /\ applied.device = "IntelMgbeEhl"
    /\ applied.non_conflicting
    /\ applied.accepted = IntelMgbeEhl_NUM_TX_QUEUES - 1
    /\ Len(Scheduled(talker_manager["eth0"].scheduler.traffics))
          = IntelMgbeEhl_NUM_TX_QUEUES - 1
    /\ talker_manager["eth0"].mapping.available_tx_queues = <<>>
    /\ \E k \in 1..(IntelMgbeEhl_NUM_TX_QUEUES - 2) :
           Scheduled(talker_manager["eth0"].scheduler.traffics)[k].start
               > Scheduled(talker_manager["eth0"].scheduler.traffics)[k + 1].start

\* ------------------------------------------------------------------------
\* Properties of concurrent Manager.add_talker calls
\* ------------------------------------------------------------------------
\* The threads inside the Manager
Inside == {t \in Threads : pc[t] \in {"lookup", "create", "call", "release"}}

MutualExclusion == Cardinality(Inside) <= 1

\* One InterfaceManager per interface name that has been referred to
OneInterfaceManager ==
    \A n \in ThreadNames :
        /\ created[n] <= 1
        /\ (n \in DOMAIN talker_manager) <=> (created[n] = 1)

\* The calls of the threads order[k], order[k + 1], ... made one after
\* another on the Manager tm: the Manager and the results they leave
RECURSIVE OneAfterAnother(_, _, _, _)
OneAfterAnother(order, k, tm, res) ==
    IF k > Len(order) THEN [talker_manager |-> tm, result |-> res]
    ELSE With(add_talker(LookupOrCreate(tm, req[order[k]].config.interface),
                         req[order[k]].config, req[order[k]].sysfail),
              LAMBDA out :
                  OneAfterAnother(
                      order, k + 1,
                      [n \in (DOMAIN tm) \cup {req[order[k]].config.interface.name} |->
                          IF n = req[order[k]].config.interface.name
                          THEN out.im ELSE tm[n]],
                      [res EXCEPT ![order[k]] =
                          [err |-> out.err, vlan_interface |-> out.vlan_interface,
                           soprio |-> out.soprio]]))

Orders ==
    {o \in [1..NumThreads -> Threads] : \A i, j \in 1..NumThreads : o[i] = o[j] => i = j}

AllDone == \A t \in Threads : pc[t] = "done"

Serial ==
    AllDone =>
        \E order \in Orders :
            OneAfterAnother(order, 1, << >>, [t \in Threads |-> NoResult])
                = [talker_manager |-> talker_manager, result |-> result]

\* C9: concurrent Manager.add_talker calls are mutually exclusive for their
\* whole duration: at most one call is inside the Manager at any time, every
\* result and the final state equal those of running the calls one after
\* another in some order, and each interface name gets exactly one
\* InterfaceManager even when the first requests for it race.
C9_CallsAreMutuallyExclusive ==
    /\ MutualExclusion
    /\ OneInterfaceManager
    /\ Serial

\* C9 witness: two calls on the same new interface have both returned, one
\* accepted and one refused
C9_Witness ==
    /\ AllDone
    /\ req[1].config.interface = req[2].config.interface
    /\ created[req[1].config.interface.name] = 1
    /\ result[1].err = "none"
    /\ result[2].err = "ValueError"

RequestConfig(request) ==
    [interface |-> Interface(request.interface), interval |-> request.period,
     size |-> request.size, txoffset |-> request.txmin, vid |-> request.vid,
     pcp |-> request.pcp]

\* A talker request that a Manager which holds no stream accepts
ValidOnFreshManager(request) ==
    /\ ~(request.txmin > request.period)
    /\ add_talker(InterfaceManager(Interface(request.interface)),
                  RequestConfig(request), "none").err = "none"

\* A request whose handling failed: the handler raised or the datagram did
\* not decode, or the send of the response or of finish was refused
FailedRequest(h) == h.failed \/ h.send_failed \/ h.finish_failed

InstalledMatchesScheduler(im) ==
    Len(im.scheduler.traffics) > 1 => im.system.qdisc = im.scheduler.schedule

\* C12: after an add_talker that fails in the system configuration step
\* (device, qdisc or VLAN) the external configuration of the interface is
\* what it was before the call: device settings, gate schedule and VLAN
\* interfaces, and the gate schedule installed for the talkers accepted
\* earlier still corresponds to the Scheduler's schedule.
C12_FailedSetupLeavesSystem ==
    [][last'.err = "RuntimeError" =>
        /\ After.system.device = Before.system.device
        /\ After.system.qdisc = Before.system.qdisc
        /\ After.system.vlans = Before.system.vlans
        /\ InstalledMatchesScheduler(After)]_vars

\* C12 witness: the VLAN step failed on an interface that carries an
\* accepted talker
C12_Witness ==
    /\ last.err = "RuntimeError"
    /\ Len(talker_manager[last.name].scheduler.traffics) = 2
    /\ Len(talker_manager[last.name].system.steps) = 4
    /\ talker_manager[last.name].system.vlans = {3}

Reverse(s) == [i \in 1..Len(s) |-> s[Len(s) + 1 - i]]

Whats(steps) == [i \in 1..Len(steps) |-> steps[i].what]

IsSetup(step) == step.op = "setup"

IsUnset(step) == step.op = "unset"

\* The calls of one SystemConfigurator.setup: the set-ups come first, in the
\* order device, qdisc, vlan and without a gap; when the call succeeded all
\* three were made and nothing was undone; when it failed, the last set-up
\* is the failing one and the ones before it are undone in reverse order
StepsInOrder(steps, failed) ==
    LET setups == SelectSeq(steps, IsSetup)
        unsets == SelectSeq(steps, IsUnset)
    IN /\ steps = setups \o unsets
       /\ Len(setups) \in 1..3
       /\ Whats(setups) = SubSeq(<<"device", "qdisc", "vlan">>, 1, Len(setups))
       /\ ~failed => (Len(setups) = 3 /\ unsets = << >>)
       /\ failed => Whats(unsets) = Reverse(SubSeq(Whats(setups), 1, Len(setups) - 1))

\* C13: SystemConfigurator.setup applies its steps in the fixed order
\* device, qdisc, VLAN: a step is attempted only after the previous one
\* succeeded, no step after a failing one is attempted, and the steps
\* already applied in a failing call are undone in the reverse order.
C13_StepsInOrderUndoneInReverse ==
    [][last'.err \in {"none", "RuntimeError"} =>
        StepsInOrder(After.system.steps, last'.err = "RuntimeError")]_vars

\* C13 witness: a call whose VLAN step failed
C13_Witness ==
    /\ last.err = "RuntimeError"
    /\ Len(talker_manager[last.name].system.steps) = 4
    /\ talker_manager[last.name].system.steps[3] = Step("vlan", "setup")

\* C14: for every interface and every VLAN id, over any sequence of
\* add_talker requests, the VLAN interface of that id is created at most
\* once.
C14_VlanCreatedAtMostOnce ==
    \A name \in DOMAIN talker_manager :
        \A vid \in DOMAIN talker_manager[name].system.vlan_adds :
            talker_manager[name].system.vlan_adds[vid] <= 1

\* C14 witness: two accepted streams of one interface use the same VLAN id
C14_Witness ==
    /\ last.err = "none"
    /\ Len(talker_manager[last.name].scheduler.traffics) = 3
    /\ talker_manager[last.name].scheduler.traffics[2].vid
           = talker_manager[last.name].scheduler.traffics[3].vid
    /\ talker_manager[last.name].system.vlans = {3}

\* ------------------------------------------------------------------------
\* Properties of the values add_talker returns
\* ------------------------------------------------------------------------
\* The stream the latest successful add_talker accepted
Accepted == After.scheduler.traffics[Len(After.scheduler.traffics)]

\* Streams holding a socket priority of the interface before the call
HeldBefore ==
    num_tx_queues(Before.interface.device) - 1
        - Len(Before.mapping.available_socket_prios)

\* C15: a successful add_talker for interface name i and VLAN id v returns
\* the VLAN interface name "i.v" and the socket priority the Mapping
\* allocated to the stream in this call: the one that was first in the pool
\* and is no longer free, 7 for the first talker of an interface and 8 for
\* the second.
C15_ReturnsVlanInterfaceAndSoprio ==
    [][last'.err = "none" =>
        /\ last'.vlan_interface = last'.name \o "." \o ToString(Accepted.vid)
        /\ last'.soprio = Before.mapping.available_socket_prios[1]
        /\ last'.soprio \notin Range(After.mapping.available_socket_prios)
        /\ After.mapping.tc_to_soprio[Accepted.tc + 1] = last'.soprio
        /\ HeldBefore = 0 => last'.soprio = 7
        /\ HeldBefore = 1 => last'.soprio = 8]_vars

\* C15 witness: the second talker of eth0 was accepted with "eth0.3" and 8
C15_Witness ==
    /\ last = [name |-> "eth0", err |-> "none", vlan_interface |-> "eth0.3",
               soprio |-> 8]
    /\ Len(talker_manager["eth0"].scheduler.traffics) = 3

\* C16: a successful add_talker also returns txoffset_min = txoffset -
\* hardware latency max and txoffset_max = txoffset - hardware latency min
\* of the interface's device, for every accepted tx offset, those smaller
\* than the hardware latency included.  Stated for the IntelI225, the
\* device that declares its latencies.
C16_ReturnsTxOffsetWindow ==
    [][last'.err = "none" =>
        /\ Len(ReturnValue(last')) = 4
        /\ ReturnValue(last')[3] = Accepted.start - IntelI225_HARDWARE_LATENCY_MAX
        /\ ReturnValue(last')[4] = Accepted.start - IntelI225_HARDWARE_LATENCY_MIN]_vars

\* C16 witness: an IntelI225 accepted a talker whose tx offset is smaller
\* than the hardware latency
C16_Witness ==
    /\ last.name = "eth1"
    /\ last.err = "none"
    /\ talker_manager["eth1"].scheduler.traffics[2].start
           < IntelI225_HARDWARE_LATENCY_MIN

\* ------------------------------------------------------------------------
\* Properties of the devices
\* ------------------------------------------------------------------------
\* C17: on an IntelI225 an add_talker whose resulting schedule opens the
\* gate of some traffic more than once per cycle is rejected: no accepted
\* talker leaves such a schedule, and the call refused by supports_schedule
\* (TypeError) leaves the Mapping and the Scheduler as they were before it.
C17_I225RejectsMultipleOpens ==
    [][/\ last'.err = "none" =>
              ~opens_gate_multiple_times_per_cycle(After.scheduler.schedule)
       /\ last'.err = "TypeError" =>
              /\ After.mapping = Before.mapping
              /\ After.scheduler = Before.scheduler]_vars

\* C17 witness: an IntelI225 that carries an accepted talker refused another
C17_Witness ==
    /\ last.name = "eth1"
    /\ last.err = "TypeError"
    /\ Len(talker_manager["eth1"].scheduler.traffics) = 2
    /\ Len(talker_manager["eth1"].mapping.available_socket_prios) = 2
    /\ ~opens_gate_multiple_times_per_cycle(talker_manager["eth1"].scheduler.schedule)

\* ------------------------------------------------------------------------
\* IntelI226.supports_schedule called on its own
\* ------------------------------------------------------------------------
\* Start of the streams of the schedulers handed to supports_schedule
ScheduleOffsets == {0, 12, 24}

\* The traffics of the schedulers: what Traffic.__init__ reads of a
\* Configuration
ScheduleConfigs ==
    [interval : {20, 40}, size : {1},
     txoffset : ScheduleOffsets, vid : Vids, pcp : Pcps]

\* The mapping attribute of the device: the one IntelI226.__init__ sets and
\* the other Mapping classes
I226Mappings ==
    {MappingMultiqueueTrafficClassExclusive("IntelI226"),
     MappingFixed("IntelI226"), MappingFlexible("IntelI226")}

InitI226 ==
    /\ NewManager
    /\ NoMapping
    /\ NoThreads
    /\ test_mode = FALSE
    /\ handled = NoDatagram
    /\ \E m \in I226Mappings :
           applied = [name |-> "supports_schedule", scheduler |-> NewScheduler,
                      mapping |-> m, err |-> "nocall", done |-> FALSE,
                      ret |-> FALSE]

\* Scheduler.add of one more traffic, on the next traffic class, to the
\* scheduler that will be handed to supports_schedule; an add that raises
\* leaves the scheduler as Scheduler.add left it
SchedulerAddTraffic(config) ==
    /\ ~applied.done
    /\ Len(applied.scheduler.traffics) <= MaxTraffics
    /\ \E r \in {SchedulerAdd(applied.scheduler,
                              Traffic(NewId(applied.scheduler.traffics), config,
                                      Len(applied.scheduler.traffics)))} :
           applied' = [applied EXCEPT !.scheduler = r.scheduler, !.err = r.err]
    /\ UNCHANGED <<manager_vars, mapping_vars, thread_vars, service_vars>>

\* device.supports_schedule(scheduler) on an IntelI226 whose mapping
\* attribute is applied.mapping
SupportsSchedule ==
    /\ ~applied.done
    /\ applied' = [applied EXCEPT
                      !.done = TRUE,
                      !.ret = IntelI226_supports_schedule(applied.scheduler,
                                                          applied.mapping)]
    /\ UNCHANGED <<manager_vars, mapping_vars, thread_vars, service_vars>>

NextI226 ==
    \/ \E config \in ScheduleConfigs : SchedulerAddTraffic(config)
    \/ SupportsSchedule

SpecI226 == InitI226 /\ [][NextI226]_vars

\* C18: IntelI226.supports_schedule accepts every schedule that opens no
\* gate more than once per cycle; it accepts a schedule that opens a gate
\* more than once exactly when the device's mapping is the exclusive
\* multi-queue mapping and the scheduler has at most 3 traffics, best
\* effort included, and the schedule at most 4 slots; it rejects the rest.
C18_I226AcceptsExactly ==
    applied.done =>
        /\ ~opens_gate_multiple_times_per_cycle(applied.scheduler.schedule)
               => applied.ret = TRUE
        /\ opens_gate_multiple_times_per_cycle(applied.scheduler.schedule)
               => (applied.ret = TRUE <=>
                      /\ applied.mapping.variant =
                             "MappingMultiqueueTrafficClassExclusive"
                      /\ Len(applied.scheduler.traffics) <= 3
                      /\ Len(applied.scheduler.schedule.slots) <= 4)

\* A schedule that opens the best effort gate twice with 3 traffics and 4
\* slots was accepted under the exclusive mapping
C18_Witness ==
    /\ applied.done
    /\ opens_gate_multiple_times_per_cycle(applied.scheduler.schedule)
    /\ applied.mapping.variant = "MappingMultiqueueTrafficClassExclusive"
    /\ Len(applied.scheduler.traffics) = 3
    /\ Len(applied.scheduler.schedule.slots) = 4
    /\ applied.ret = TRUE

\* ------------------------------------------------------------------------
\* Device.check_hints called on its own
\* ------------------------------------------------------------------------
\* Capability: Qbv is gate scheduling, Qbu frame preemption, LTC launch
\* time control
Capabilities == {"Qbv", "Qbu", "LTC"}

\* DataPath(value): the member with that value, ValueError when there is none
DataPath(value) ==
    CASE value = 0 -> [err |-> "none", member |-> "AF_PACKET"]
      [] value = 1 -> [err |-> "none", member |-> "AF_XDP_ZC"]
      [] OTHER     -> [err |-> "ValueError", member |-> "None"]

\* TxSelection(value)
TxSelection(value) ==
    CASE value = 0 -> [err |-> "none", member |-> "EST"]
      [] value = 1 -> [err |-> "none", member |-> "STRICT_PRIO"]
      [] OTHER     -> [err |-> "ValueError", member |-> "None"]

\* member.value of a DataPath or TxSelection member
EnumValue(member) ==
    CASE member \in {"AF_PACKET", "EST"} -> 0
      [] member \in {"AF_XDP_ZC", "STRICT_PRIO"} -> 1

\* Hints(tx_selection, tx_selection_offload, data_path, preemption,
\* launch_time_control)
Hints(tx_selection, tx_selection_offload, data_path, preemption, launch_time_control) ==
    [tx_selection |-> tx_selection, tx_selection_offload |-> tx_selection_offload,
     data_path |-> data_path, preemption |-> preemption,
     launch_time_control |-> launch_time_control]

NoHints == Hints("None", FALSE, "None", FALSE, FALSE)

\* A check_hints without the check of launch time control
check_hints_no_ltc(capabilities, hints) ==
    With(DataPath(hints.data_path), LAMBDA datapath :
    With(TxSelection(hints.tx_selection), LAMBDA tx_selection :
        IF datapath.err # "none" \/ tx_selection.err # "none"
        THEN [err |-> "ValueError", hints |-> NoHints]
        ELSE IF datapath.member # "AF_PACKET"
        THEN [err |-> "ValueError", hints |-> NoHints]
        ELSE IF /\ tx_selection.member = "EST" /\ hints.tx_selection_offload = TRUE
                /\ "Qbv" \notin capabilities
        THEN [err |-> "ValueError", hints |-> NoHints]
        ELSE IF hints.preemption = TRUE /\ "Qbu" \notin capabilities
        THEN [err |-> "ValueError", hints |-> NoHints]
        ELSE [err |-> "none",
              hints |-> Hints(tx_selection.member, hints.tx_selection_offload,
                              datapath.member, hints.preemption,
                              hints.launch_time_control)]))

\* Device.check_hints on a device with these capabilities, hints being
\* config.hints: the Hints it returns or the exception it raises
check_hints(capabilities, hints) ==
    With(DataPath(hints.data_path), LAMBDA datapath :
    With(TxSelection(hints.tx_selection), LAMBDA tx_selection :
        IF datapath.err # "none" \/ tx_selection.err # "none"
        THEN [err |-> "ValueError", hints |-> NoHints]
        ELSE IF datapath.member # "AF_PACKET"
        THEN [err |-> "ValueError", hints |-> NoHints]
        ELSE IF /\ tx_selection.member = "EST" /\ hints.tx_selection_offload = TRUE
                /\ "Qbv" \notin capabilities
        THEN [err |-> "ValueError", hints |-> NoHints]
        ELSE IF hints.preemption = TRUE /\ "Qbu" \notin capabilities
        THEN [err |-> "ValueError", hints |-> NoHints]
        ELSE IF hints.launch_time_control = TRUE /\ "LTC" \notin capabilities
        THEN [err |-> "ValueError", hints |-> NoHints]
        ELSE [err |-> "none",
              hints |-> Hints(tx_selection.member, hints.tx_selection_offload,
                              datapath.member, hints.preemption,
                              hints.launch_time_control)]))

\* The hints of a request: the enumerations by value
RequestHints ==
    [tx_selection : {0, 1}, tx_selection_offload : BOOLEAN, data_path : {0, 1},
     preemption : BOOLEAN, launch_time_control : BOOLEAN]

\* self.capabilities of the device classes: Device has none, IntelI210 LTC,
\* IntelI225 Qbv, IntelI226 and IntelMgbeEhl all three; the other sets are
\* those of devices yet to be written
CapabilitySets == SUBSET Capabilities

InitHints ==
    /\ NewManager
    /\ NoMapping
    /\ NoThreads
    /\ test_mode = FALSE
    /\ handled = NoDatagram
    /\ \E capabilities \in CapabilitySets, hints \in RequestHints :
           applied = [name |-> "check_hints", capabilities |-> capabilities,
                      hints |-> hints, done |-> FALSE,
                      err |-> "none", ret |-> NoHints]

\* device.check_hints(config)
CheckHints ==
    /\ ~applied.done
    /\ \E r \in {check_hints(applied.capabilities, applied.hints)} :
           applied' = [applied EXCEPT !.done = TRUE, !.err = r.err, !.ret = r.hints]
    /\ UNCHANGED <<manager_vars, mapping_vars, thread_vars, service_vars>>

NextHints == CheckHints

SpecHints == InitHints /\ [][NextHints]_vars

\* The capabilities the hints imply
Implied(hints) ==
    (IF hints.tx_selection = 0 /\ hints.tx_selection_offload THEN {"Qbv"} ELSE {})
    \cup (IF hints.preemption THEN {"Qbu"} ELSE {})
    \cup (IF hints.launch_time_control THEN {"LTC"} ELSE {})

\* The Hints returned carry the values of the hints requested
SameHintValues(ret, hints) ==
    /\ EnumValue(ret.tx_selection) = hints.tx_selection
    /\ EnumValue(ret.data_path) = hints.data_path
    /\ ret.tx_selection_offload = hints.tx_selection_offload
    /\ ret.preemption = hints.preemption
    /\ ret.launch_time_control = hints.launch_time_control

\* C19, as stated: check_hints rejects a request when a capability it implies
\* is not in the device's set, and accepts, returning the same hint values,
\* every request whose implied capabilities are all in the set.
C19_AcceptsWhenCapable ==
    applied.done =>
        /\ ~(Implied(applied.hints) \subseteq applied.capabilities)
               => applied.err # "none"
        /\ Implied(applied.hints) \subseteq applied.capabilities
               => /\ applied.err = "none"
                  /\ SameHintValues(applied.ret, applied.hints)

\* C19, amended: check_hints rejects a request when a capability it implies
\* is not in the device's set or when its data path is not AF_PACKET, and
\* accepts, returning the same hint values, every request on the AF_PACKET
\* data path whose implied capabilities are all in the set.
C19_AcceptsWhenCapableOnAfPacket ==
    applied.done =>
        /\ ~(Implied(applied.hints) \subseteq applied.capabilities)
               => applied.err # "none"
        /\ applied.hints.data_path # 0 => applied.err # "none"
        /\ (Implied(applied.hints) \subseteq applied.capabilities
            /\ applied.hints.data_path = 0)
               => /\ applied.err = "none"
                  /\ SameHintValues(applied.ret, applied.hints)

\* A request for offloaded EST, preemption and launch time control on the
\* AF_PACKET data path was accepted
C19_Witness ==
    /\ applied.done
    /\ applied.hints = [tx_selection |-> 0, tx_selection_offload |-> TRUE,
                        data_path |-> 0, preemption |-> TRUE,
                        launch_time_control |-> TRUE]
    /\ applied.err = "none"
    /\ applied.ret = Hints("EST", TRUE, "AF_PACKET", TRUE, TRUE)

\* ------------------------------------------------------------------------
\* Configuration objects on their way to the Manager
\* ------------------------------------------------------------------------
NoConfig ==
    [interface |-> Interface("eth0"), interval |-> 0, size |-> 0, txoffset |-> 0,
     vid |-> 0, pcp |-> 0]

\* A constructor that takes any tx offset
Configuration_unchecked(interface, stream, traffic) ==
    [err |-> "none",
     config |-> [interface |-> interface, interval |-> traffic.interval,
                 size |-> traffic.size, txoffset |-> stream.txoffset,
                 vid |-> stream.vid, pcp |-> stream.pcp]]

\* Configuration(interface, stream, traffic): the object or the exception
Configuration(interface, stream, traffic) ==
    IF stream.txoffset > traffic.interval
    THEN [err |-> "TypeError", config |-> NoConfig]
    ELSE [err |-> "none",
          config |-> [interface |-> interface, interval |-> traffic.interval,
                      size |-> traffic.size, txoffset |-> stream.txoffset,
                      vid |-> stream.vid, pcp |-> stream.pcp]]

\* StreamConfiguration and TrafficSpecification objects
StreamOffsets == {0, 20, 40}

StreamConfigurations == [vid : Vids, pcp : Pcps, txoffset : StreamOffsets]

TrafficSpecifications == [interval : Intervals, size : {1}]

InitConfiguration ==
    /\ NewManager
    /\ NoMapping
    /\ NoThreads
    /\ test_mode = FALSE
    /\ handled = NoDatagram
    /\ applied = [name |-> "Configuration",
                  stream |-> [vid |-> 0, pcp |-> 0, txoffset |-> 0],
                  traffic |-> [interval |-> 0, size |-> 0],
                  err |-> "nocall", config |-> NoConfig]

\* config = Configuration(interface, stream, traffic)
Construct(stream, traffic) ==
    /\ \E r \in {Configuration(Interface("eth0"), stream, traffic)} :
           applied' = [applied EXCEPT !.stream = stream, !.traffic = traffic,
                                      !.err = r.err, !.config = r.config]
    /\ UNCHANGED <<manager_vars, mapping_vars, thread_vars, service_vars>>

\* manager.add_talker(config) with the object constructed
AddTalkerConstructed(sysfail) ==
    /\ applied.err = "none"
    /\ Len(LookupOrCreate(talker_manager, applied.config.interface).scheduler.traffics)
           <= MaxTraffics
    /\ ManagerAddTalker(applied.config, sysfail)
    /\ applied' = [applied EXCEPT !.err = "nocall"]
    /\ UNCHANGED <<mapping_vars, thread_vars, service_vars>>

NextConfiguration ==
    \/ \E stream \in StreamConfigurations, traffic \in TrafficSpecifications :
           Construct(stream, traffic)
    \/ \E sysfail \in ServiceSysFails : AddTalkerConstructed(sysfail)

SpecConfiguration == InitConfiguration /\ [][NextConfiguration]_vars

\* C20: constructing a Configuration raises an error whenever the stream's
\* tx offset is greater than the traffic's interval, so the Configuration
\* handed to Manager.add_talker, and every traffic the Manager made of one,
\* has a tx offset of at most the interval.
C20_TxOffsetWithinInterval ==
    /\ (applied.err # "nocall" /\ applied.stream.txoffset > applied.traffic.interval)
           => applied.err = "TypeError"
    /\ applied.err = "none" => applied.config.txoffset <= applied.config.interval
    /\ \A n \in DOMAIN talker_manager :
           \A t \in Range(talker_manager[n].scheduler.traffics) :
               t.type = "SCHEDULED" => t.start <= t.interval

\* A Configuration with a tx offset beyond the interval was refused while the
\* Manager holds a traffic whose tx offset is the interval
C20_Witness ==
    /\ applied.err = "TypeError"
    /\ applied.stream.txoffset = 40
    /\ applied.traffic.interval = 20
    /\ "eth0" \in DOMAIN talker_manager
    /\ \E t \in Range(talker_manager["eth0"].scheduler.traffics) :
           t.type = "SCHEDULED" /\ t.start = t.interval /\ t.interval > 0

\* ------------------------------------------------------------------------
\* Streams at the boundaries of the interval
\* ------------------------------------------------------------------------
\* tx offsets 0, interval - 1 and interval of the intervals 20 and 40;
\* frames of 1 and 3 bytes, 8 and 24 long on the wire
BoundaryStreams == [vid : Vids, pcp : Pcps, txoffset : {0, 19, 20, 39, 40}]

BoundaryTraffics == [interval : {20, 40}, size : {1, 3}]

InitBoundary ==
    /\ NewManager
    /\ NoMapping
    /\ NoThreads
    /\ test_mode = FALSE
    /\ handled = NoDatagram
    /\ applied = [name |-> "add_talker",
                  stream |-> [vid |-> 0, pcp |-> 0, txoffset |-> 0],
                  traffic |-> [interval |-> 0, size |-> 0],
                  err |-> "nocall"]

\* ServiceRequestHandler._add_talker: Configuration(interface, stream,
\* traffic), then manager.add_talker(config)
AdmitStream(stream, traffic) ==
    /\ \E r \in {Configuration(Interface("eth0"), stream, traffic)} :
           IF r.err # "none"
           THEN /\ applied' = [applied EXCEPT !.stream = stream,
                                              !.traffic = traffic, !.err = r.err]
                /\ UNCHANGED manager_vars
           ELSE /\ Len(LookupOrCreate(talker_manager,
                                      r.config.interface).scheduler.traffics)
                       <= MaxTraffics
                /\ ManagerAddTalker(r.config, "none")
                /\ applied' = [applied EXCEPT !.stream = stream,
                                              !.traffic = traffic,
                                              !.err = last'.err]
    /\ UNCHANGED <<mapping_vars, thread_vars, service_vars>>

NextBoundary ==
    \E stream \in BoundaryStreams, traffic \in BoundaryTraffics :
        AdmitStream(stream, traffic)

SpecBoundary == InitBoundary /\ [][NextBoundary]_vars

\* On-wire length of the frames of a traffic specification
LengthOf(traffic) ==
    Traffic(1, [interval |-> traffic.interval, size |-> traffic.size,
                txoffset |-> 0, vid |-> 0, pcp |-> 0], 1).length

\* C21: on an interface without streams, a stream with tx_offset = 0 or
\* tx_offset = interval - 1 whose frame is shorter than the interval is
\* admitted; a stream with tx_offset = interval, or with a frame whose
\* on-wire length is at least the interval, is rejected and the
\* interface's Mapping and Scheduler are as they were before the request.
C21_BoundaryStreams ==
    [][applied'.err # "nocall" =>
        /\ (/\ Len(LookupOrCreate(talker_manager, Interface("eth0")).scheduler.traffics) = 1
            /\ applied'.stream.txoffset \in {0, applied'.traffic.interval - 1}
            /\ LengthOf(applied'.traffic) < applied'.traffic.interval)
               => applied'.err = "none"
        /\ (\/ applied'.stream.txoffset = applied'.traffic.interval
            \/ LengthOf(applied'.traffic) >= applied'.traffic.interval)
               => /\ applied'.err # "none"
                  /\ LookupOrCreate(talker_manager', Interface("eth0")).mapping
                         = LookupOrCreate(talker_manager, Interface("eth0")).mapping
                  /\ LookupOrCreate(talker_manager', Interface("eth0")).scheduler
                         = LookupOrCreate(talker_manager, Interface("eth0")).scheduler]_vars

\* A stream with tx_offset = interval went through add_talker
C21_Witness ==
    /\ applied.name = "add_talker"
    /\ applied.err # "nocall"
    /\ applied.stream.txoffset = applied.traffic.interval
    /\ "eth0" \in DOMAIN talker_manager

\* ------------------------------------------------------------------------
\* StreamConfiguration objects
\* ------------------------------------------------------------------------
\* Strings are sequences of characters; an optional integer is << >> for
\* None and <<value>> otherwise
HexDigits ==
    {"0", "1", "2", "3", "4", "5", "6", "7", "8", "9",
     "a", "b", "c", "d", "e", "f", "A", "B", "C", "D", "E", "F"}

\* Check.is_mac_address: regex.match anchors the pattern at the start, and
\* its "$" matches at the end or before a newline that ends the string
is_mac_address(addr) ==
    /\ \/ Len(addr) = 17
       \/ Len(addr) = 18 /\ addr[18] = "\n"
    /\ \A i \in 1..17 :
           IF i % 3 = 0 THEN addr[i] = ":" ELSE addr[i] \in HexDigits

\* A check that takes the reserved ids 1 and 4095 too
is_valid_vlan_id_inclusive(vid) == IF 1 <= vid /\ vid <= 4095 THEN TRUE ELSE FALSE

\* Check.is_valid_vlan_id
is_valid_vlan_id(vid) == IF 1 < vid /\ vid < 4095 THEN TRUE ELSE FALSE

\* Check.is_valid_pcp
is_valid_pcp(pcp) == IF 0 <= pcp /\ pcp <= 7 THEN TRUE ELSE FALSE

\* Check.is_natural of an integer
is_natural(number) == IF number < 0 THEN FALSE ELSE TRUE

\* StreamConfiguration(addr, vid, pcp, txoffset, base_time): the exception
\* it raises
StreamConfiguration(addr, vid, pcp, txoffset, base_time) ==
    IF ~is_mac_address(addr) THEN "TypeError"
    ELSE IF ~is_valid_vlan_id(vid) THEN "TypeError"
    ELSE IF ~is_valid_pcp(pcp) THEN "TypeError"
    ELSE IF ~is_natural(txoffset) THEN "TypeError"
    ELSE IF base_time # << >> /\ ~is_natural(base_time[1]) THEN "TypeError"
    ELSE "none"

\* "xx:xx:xx:xx:xx:xx" of the groups given
MacOf(groups) ==
    LET RECURSIVE Join(_)
        Join(k) == IF k = 1 THEN groups[1] ELSE Join(k - 1) \o <<":">> \o groups[k]
    IN  Join(Len(groups))

Addrs ==
    {MacOf(<< <<"7", "a">>, <<"b", "9">>, <<"e", "d">>, <<"d", "6">>, <<"d", "2">>, <<"1", "2">> >>),
     MacOf(<< <<"A", "B">>, <<"1", "2">>, <<"A", "B">>, <<"2", "3">>, <<"3", "4">>, <<"5", "4">>, <<"5", "4">> >>),
     MacOf(<< <<"7", "a">>, <<"b", "9">>, <<"e", "d">>, <<"d", "6">>, <<"d", "2">>, <<"1", "g">> >>)}

VlanIds == {-1, 0, 1, 2, 3, 4094, 4095, 4096}

StreamArguments ==
    [addr : Addrs, vid : VlanIds, pcp : {-1, 0, 7, 8}, txoffset : {-1, 0},
     base_time : {<< >>, <<0>>, <<-1>>}]

InitStream ==
    /\ NewManager
    /\ NoMapping
    /\ NoThreads
    /\ test_mode = FALSE
    /\ handled = NoDatagram
    /\ applied = [name |-> "StreamConfiguration",
                  args |-> [addr |-> << >>, vid |-> 0, pcp |-> 0, txoffset |-> 0,
                            base_time |-> << >>],
                  err |-> "nocall"]

\* stream = StreamConfiguration(addr, vid, pcp, txoffset, base_time)
ConstructStream(args) ==
    /\ applied' = [applied EXCEPT
                      !.args = args,
                      !.err = StreamConfiguration(args.addr, args.vid, args.pcp,
                                                  args.txoffset, args.base_time)]
    /\ UNCHANGED <<manager_vars, mapping_vars, thread_vars, service_vars>>

NextStream == \E args \in StreamArguments : ConstructStream(args)

SpecStream == InitStream /\ [][NextStream]_vars

\* The arguments other than the VLAN id are those of a stream
OtherArgumentsValid(args) ==
    /\ is_mac_address(args.addr)
    /\ args.pcp \in 0..7
    /\ args.txoffset >= 0
    /\ args.base_time = << >> \/ args.base_time[1] >= 0

\* C22: StreamConfiguration raises an error for every VLAN id outside
\* 2..4094 (0, 1, 4095, negative ids), and with the other arguments valid
\* it accepts every VLAN id in 2..4094 (2 and 4094 included).
C22_VlanIdAcceptedExactlyIn2To4094 ==
    applied.err # "nocall" =>
        /\ applied.args.vid \notin 2..4094 => applied.err = "TypeError"
        /\ (applied.args.vid \in 2..4094 /\ OtherArgumentsValid(applied.args))
               => applied.err = "none"

\* VLAN id 4094 was accepted
C22_Witness ==
    /\ applied.name = "StreamConfiguration"
    /\ applied.args.vid = 4094
    /\ applied.err = "none"

\* ------------------------------------------------------------------------
\* The base time of a talker's stream
\* ------------------------------------------------------------------------
\* device.get_base_time_multiple()
get_base_time_multiple(device) ==
    CASE device = "IntelMgbeEhl" -> 2
      [] device = "IntelI225"    -> -1

\* A base time counted from now instead of from the start of the next cycle
update_base_time_from_now(device, config, now) ==
    now + get_base_time_multiple(device) * config.interval

\* InterfaceManager.update_base_time: config.stream.base_time after it, now
\* being time.clock_gettime_ns(CLOCK_TAI)
update_base_time(device, config, now) ==
    LET period == config.interval
        multiple == get_base_time_multiple(device)
        ns_until_next_cycle == period - (now % period)
        safety_margin == multiple * period
    IN  (now + ns_until_next_cycle) + safety_margin

\* config.stream.base_time after InterfaceManager.add_talker ended with err:
\* the call reaches "if config.stream.base_time is None" unless the mapping,
\* the scheduler or supports_schedule stopped it
base_time_after(err, device, config, base_time, now) ==
    IF err \in {"none", "RuntimeError"} /\ base_time = << >>
    THEN <<update_base_time(device, config, now)>>
    ELSE base_time

\* Readings of the TAI clock and base times of the caller
Nows == {7, 40}

BaseTimes == {<< >>, <<5>>}

BaseTimeConfigs ==
    [interface : {Interface("eth0"), Interface("eth1")}, interval : {20, 40},
     size : {1}, txoffset : {0, 12}, vid : Vids, pcp : Pcps]

InitBaseTime ==
    /\ NewManager
    /\ NoMapping
    /\ NoThreads
    /\ test_mode = FALSE
    /\ handled = NoDatagram
    /\ applied = [name |-> "add_talker", device |-> "", interval |-> 0, now |-> 0,
                  before |-> << >>, after |-> << >>, err |-> "nocall"]

\* manager.add_talker(config) at time now, config.stream.base_time being
\* base_time
AddTalkerAt(config, base_time, now, sysfail) ==
    /\ Len(LookupOrCreate(talker_manager, config.interface).scheduler.traffics)
           <= MaxTraffics
    /\ ManagerAddTalker(config, sysfail)
    /\ applied' = [name |-> "add_talker", device |-> config.interface.device,
                   interval |-> config.interval, now |-> now,
                   before |-> base_time,
                   after |-> base_time_after(last'.err, config.interface.device,
                                             config, base_time, now),
                   err |-> last'.err]
    /\ UNCHANGED <<mapping_vars, thread_vars, service_vars>>

NextBaseTime ==
    \E config \in BaseTimeConfigs, base_time \in BaseTimes, now \in Nows :
        AddTalkerAt(config, base_time, now, "none")

SpecBaseTime == InitBaseTime /\ [][NextBaseTime]_vars

\* C23: an add_talker that returns for a stream without base_time leaves
\* base_time = now + (interval - now mod interval) + multiple * interval, an
\* exact multiple of the interval that lies after now when the device's
\* multiple is >= 0 and not after now when it is -1; a base_time the caller
\* supplied is the same after the call, whatever its outcome.
C23_BaseTimeOnCycleStart ==
    applied.err # "nocall" =>
        /\ (applied.err = "none" /\ applied.before = << >>) =>
               /\ applied.after # << >>
               /\ applied.after[1] =
                      applied.now + (applied.interval - (applied.now % applied.interval))
                      + get_base_time_multiple(applied.device) * applied.interval
               /\ applied.after[1] % applied.interval = 0
               /\ get_base_time_multiple(applied.device) >= 0
                      => applied.after[1] > applied.now
               /\ get_base_time_multiple(applied.device) = -1
                      => applied.after[1] <= applied.now
        /\ applied.before # << >> => applied.after = applied.before

\* On a device with multiple -1 a stream without base_time was added at a
\* time that is not a cycle start
C23_Witness ==
    /\ applied.name = "add_talker"
    /\ applied.err = "none"
    /\ applied.device = "IntelI225"
    /\ applied.before = << >>
    /\ applied.now = 7
    /\ applied.after = <<0>>

\* ------------------------------------------------------------------------
\* Message: encoding and decoding of the IPC messages
\* ------------------------------------------------------------------------
\* A packet is the DetdMessage it serialises: the variant set and its
\* fields, an unset field reading as "", 0 or FALSE.  An optional object is
\* << >> for None and <<object>> otherwise.
Encoded(packet, err) == [packet |-> packet, err |-> err]

Decoded(val, err) == [val |-> val, err |-> err]

NoPacket == [kind |-> ""]

\* Message.encode_init_interface_request: with hints, "CopyFrom(hints)"
\* is a name the module does not define
encode_init_interface_request(interface_configuration) ==
    IF interface_configuration.hints # << >>
    THEN Encoded(NoPacket, "NameError")
    ELSE Encoded([kind |-> "init_request",
                  interface |-> interface_configuration.interface_name,
                  hints |-> << >>], "none")

\* Message.extract_request
extract_request(packet) ==
    IF packet.kind \in {"init_request", "stream_qos_request"}
    THEN Decoded(packet, "none")
    ELSE Decoded(NoPacket, "Exception")

\* Message.extract_response
extract_response(packet) ==
    IF packet.kind \in {"init_response", "stream_qos_response"}
    THEN Decoded(packet, "none")
    ELSE Decoded(NoPacket, "Exception")

\* Message.decode_init_interface_request: Hints is a name the module does
\* not import
decode_init_interface_request(request) ==
    IF request.hints # << >>
    THEN Decoded([interface_name |-> "", hints |-> << >>], "NameError")
    ELSE Decoded([interface_name |-> request.interface, hints |-> << >>], "none")

\* Message.encode_init_interface_response
encode_init_interface_response(ok) ==
    Encoded([kind |-> "init_response", ok |-> ok], "none")

\* Message.decode_init_interface_response
decode_init_interface_response(response) == Decoded(response.ok, "none")

\* Message.encode_stream_qos_request: for a ListenerConfiguration dmac is
\* overwritten with configuration.maddress and maddress stays unset
encode_stream_qos_request(configuration, setup_socket) ==
    Encoded([kind |-> "stream_qos_request",
             interface |-> configuration.interface,
             period |-> configuration.traffic.interval,
             size |-> configuration.traffic.size,
             dmac |-> IF configuration.type = "Configuration"
                      THEN configuration.stream.addr
                      ELSE configuration.maddress,
             vid |-> configuration.stream.vid,
             pcp |-> configuration.stream.pcp,
             txmin |-> configuration.stream.txoffset,
             txmax |-> configuration.stream.txoffset,
             setup_socket |-> setup_socket,
             talker |-> configuration.type = "Configuration",
             maddress |-> << >>], "none")

\* Message.decode_stream_qos_request: the Configuration or the
\* ListenerConfiguration of the request, or the exception of a constructor
decode_stream_qos_request(request) ==
    With(StreamConfiguration(request.dmac, request.vid, request.pcp,
                             request.txmin, << >>), LAMBDA err :
        IF err # "none"
        THEN Decoded([type |-> ""], err)
        ELSE IF request.talker /\ request.txmin > request.period
        THEN Decoded([type |-> ""], "TypeError")
        ELSE Decoded([type |-> IF request.talker THEN "Configuration"
                               ELSE "ListenerConfiguration",
                      interface |-> request.interface,
                      stream |-> [addr |-> request.dmac, vid |-> request.vid,
                                  pcp |-> request.pcp, txoffset |-> request.txmin,
                                  base_time |-> << >>],
                      traffic |-> [interval |-> request.period,
                                   size |-> request.size],
                      maddress |-> IF request.talker THEN << >>
                                   ELSE request.dmac], "none"))

\* Message.encode_stream_qos_response
encode_stream_qos_response(ok, vlan_interface, socket_priority) ==
    IF vlan_interface # None /\ socket_priority # NoneInt
    THEN Encoded([kind |-> "stream_qos_response", ok |-> ok,
                  vlan_interface |-> vlan_interface,
                  socket_priority |-> socket_priority], "none")
    ELSE Encoded([kind |-> "stream_qos_response", ok |-> ok,
                  vlan_interface |-> "", socket_priority |-> 0], "none")

\* Message.decode_stream_qos_response
decode_stream_qos_response(response) ==
    Decoded(<<response.ok, response.vlan_interface, response.socket_priority>>,
            "none")

\* The objects encoded
HintsObjects ==
    {Hints(tx_selection, tx_selection_offload, data_path, preemption,
           launch_time_control) :
        tx_selection \in {"EST", "STRICT_PRIO"}, tx_selection_offload \in BOOLEAN,
        data_path \in {"AF_PACKET", "AF_XDP_ZC"}, preemption \in BOOLEAN,
        launch_time_control \in BOOLEAN}

InterfaceConfigurations ==
    [interface_name : {"eth0"},
     hints : {<< >>} \cup {<<hints>> : hints \in HintsObjects}]

UnicastAddr ==
    MacOf(<< <<"7", "a">>, <<"b", "9">>, <<"e", "d">>, <<"d", "6">>, <<"d", "2">>, <<"1", "2">> >>)

MulticastAddr ==
    MacOf(<< <<"0", "1">>, <<"0", "0">>, <<"5", "e">>, <<"0", "0">>, <<"0", "0">>, <<"0", "1">> >>)

StreamObjects ==
    [addr : {UnicastAddr, MulticastAddr}, vid : {3}, pcp : {6, 7},
     txoffset : {0, 12}, base_time : {<< >>}]

TalkerConfigurations ==
    [type : {"Configuration"}, interface : {"eth0"}, stream : StreamObjects,
     traffic : [interval : {20, 40}, size : {1, 3}], maddress : {<< >>}]

ListenerConfigurations ==
    [type : {"ListenerConfiguration"}, interface : {"eth0"}, stream : StreamObjects,
     traffic : [interval : {20, 40}, size : {1, 3}], maddress : {MulticastAddr}]

InitIpc ==
    /\ NewManager
    /\ NoMapping
    /\ NoThreads
    /\ test_mode = FALSE
    /\ handled = NoDatagram
    /\ applied = [name |-> "nocall", original |-> << >>, decoded |-> << >>,
                  err |-> "none"]

\* decode_init_interface_request of the request extracted from the packet
\* encode_init_interface_request made
RoundTripInitRequest(interface_configuration) ==
    /\ \E e \in {encode_init_interface_request(interface_configuration)} :
           IF e.err # "none"
           THEN applied' = [name |-> "init_request",
                            original |-> <<interface_configuration>>,
                            decoded |-> << >>, err |-> e.err]
           ELSE \E d \in {decode_init_interface_request(extract_request(e.packet).val)} :
                    applied' = [name |-> "init_request",
                                original |-> <<interface_configuration>>,
                                decoded |-> IF d.err = "none" THEN <<d.val>> ELSE << >>,
                                err |-> d.err]
    /\ UNCHANGED <<manager_vars, mapping_vars, thread_vars, service_vars>>

RoundTripInitResponse(ok) ==
    /\ \E e \in {encode_init_interface_response(ok)} :
       \E d \in {decode_init_interface_response(extract_response(e.packet).val)} :
           applied' = [name |-> "init_response", original |-> <<ok>>,
                       decoded |-> <<d.val>>, err |-> d.err]
    /\ UNCHANGED <<manager_vars, mapping_vars, thread_vars, service_vars>>

RoundTripStreamQosRequest(configuration, setup_socket) ==
    /\ \E e \in {encode_stream_qos_request(configuration, setup_socket)} :
       \E d \in {decode_stream_qos_request(extract_request(e.packet).val)} :
           applied' = [name |-> "stream_qos_request", original |-> <<configuration>>,
                       decoded |-> IF d.err = "none" THEN <<d.val>> ELSE << >>,
                       err |-> d.err]
    /\ UNCHANGED <<manager_vars, mapping_vars, thread_vars, service_vars>>

RoundTripStreamQosResponse(ok, vlan_interface, socket_priority) ==
    /\ \E e \in {encode_stream_qos_response(ok, vlan_interface, socket_priority)} :
       \E d \in {decode_stream_qos_response(extract_response(e.packet).val)} :
           applied' = [name |-> "stream_qos_response",
                       original |-> <<<<ok, vlan_interface, socket_priority>>>>,
                       decoded |-> <<d.val>>, err |-> d.err]
    /\ UNCHANGED <<manager_vars, mapping_vars, thread_vars, service_vars>>

NextIpc ==
    \/ \E interface_configuration \in InterfaceConfigurations :
           RoundTripInitRequest(interface_configuration)
    \/ \E ok \in BOOLEAN : RoundTripInitResponse(ok)
    \/ \E configuration \in TalkerConfigurations \cup ListenerConfigurations,
          setup_socket \in BOOLEAN :
           RoundTripStreamQosRequest(configuration, setup_socket)
    \/ \E ok \in BOOLEAN, socket_priority \in {7, 8, 9} :
           RoundTripStreamQosResponse(ok, "eth0.3", socket_priority)

SpecIpc == InitIpc /\ [][NextIpc]_vars

\* C24: for every well-formed IPC message (InitRequest with or without
\* hints, InitResponse, StreamQosRequest of a talker or of a listener,
\* StreamQosResponse), decoding the packet it was encoded to raises nothing
\* and yields a message equal to the original in every field.
C24_EncodeDecodeRoundTrip ==
    applied.name # "nocall" =>
        /\ applied.err = "none"
        /\ applied.decoded = applied.original

\* A listener request whose stream address differs from its multicast
\* address, and an InitRequest with hints, went through the round trip
C24_Witness ==
    \/ /\ applied.name = "stream_qos_request"
       /\ applied.original[1].type = "ListenerConfiguration"
       /\ applied.original[1].stream.addr # applied.original[1].maddress
    \/ /\ applied.name = "init_request"
       /\ applied.original[1].hints # << >>

\* ------------------------------------------------------------------------
\* The lock file of the Service
\* ------------------------------------------------------------------------
\* Processes that construct a Service
NumServices == 2

Services == 1..NumServices

\* Paths are sequences of characters, None is << >> and a path <<path>>
LockFile == <<"/", "v", "a", "r", "/", "l", "o", "c", "k", "/", "d", "e", "t", "d">>

LockPaths == {<< >>, <<LockFile>>, <<<<".", "/", "t", "m", "p">>>>}

\* Check.is_valid_path: os.path.isabs of a path that is not None
is_valid_path(path) ==
    IF path = << >> THEN FALSE
    ELSE IF ~(Len(path[1]) > 0 /\ path[1][1] = "/") THEN FALSE
    ELSE TRUE

\* Check.is_valid_file of the lock file: file is << >> when there is none,
\* else <<the regular file>>
is_valid_file(path, file) ==
    IF ~is_valid_path(path) THEN FALSE
    ELSE IF file = << >> THEN FALSE
    ELSE TRUE

\* Service.cleanup_lock_file: the file system after it and what it raises.
\* The message logged before the TypeError reads Service.SERVICE_LOCK_FILE,
\* an attribute the class does not have
cleanup_lock_file(path, file) ==
    IF ~is_valid_file(path, file) THEN [file |-> file, err |-> "AttributeError"]
    ELSE [file |-> << >>, err |-> "none"]

\* Service.setup_lock_file by process pid.  io_fails is the call that raises
\* OSError once open(path, "x") has created the file: "write", "chmod" or
\* "none"
setup_lock_file(pid, path, file, io_fails) ==
    IF ~is_valid_path(path) THEN [file |-> file, err |-> "TypeError"]
    ELSE IF file # << >> THEN [file |-> file, err |-> "FileExistsError"]
    ELSE IF io_fails = "write"
    THEN [file |-> <<[content |-> << >>, readonly |-> FALSE]>>, err |-> "OSError"]
    ELSE IF io_fails = "chmod"
    THEN [file |-> <<[content |-> <<pid>>, readonly |-> FALSE]>>, err |-> "OSError"]
    ELSE [file |-> <<[content |-> <<pid>>, readonly |-> TRUE]>>, err |-> "none"]

InitLock ==
    /\ NewManager
    /\ NoMapping
    /\ NoThreads
    /\ test_mode = FALSE
    /\ handled = NoDatagram
    /\ applied = [name |-> "Service", pc |-> [p \in Services |-> "idle"],
                  file |-> << >>, pid |-> 0, op |-> "",
                  err |-> [p \in Services |-> "nocall"]]

\* Service.__init__ up to self.setup_lock_file()
SetupLockFile(pid, path, io_fails) ==
    /\ applied.pc[pid] = "idle"
    /\ \E r \in {setup_lock_file(pid, path, applied.file, io_fails)} :
           applied' = [applied EXCEPT
                          !.pc[pid] = IF r.err = "none" THEN "locked" ELSE "idle",
                          !.file = r.file, !.pid = pid,
                          !.op = "setup_lock_file", !.err[pid] = r.err]
    /\ UNCHANGED <<manager_vars, mapping_vars, thread_vars, service_vars>>

\* The try block of Service.__init__; fails: the socket directory, the bind
\* of the server or the Manager raises, and the except block runs
\* cleanup_lock_file and raises again
InitServer(pid, fails) ==
    /\ applied.pc[pid] = "locked"
    /\ IF fails
       THEN \E r \in {cleanup_lock_file(<<LockFile>>, applied.file)} :
                applied' = [applied EXCEPT
                               !.pc[pid] = "idle", !.file = r.file, !.pid = pid,
                               !.op = "init",
                               !.err[pid] = IF r.err # "none" THEN r.err ELSE "OSError"]
       ELSE applied' = [applied EXCEPT !.pc[pid] = "running", !.pid = pid,
                                       !.op = "init", !.err[pid] = "none"]
    /\ UNCHANGED <<manager_vars, mapping_vars, thread_vars, service_vars>>

\* Service.run after shutdown: server_close and cleanup
Cleanup(pid) ==
    /\ applied.pc[pid] = "running"
    /\ \E r \in {cleanup_lock_file(<<LockFile>>, applied.file)} :
           applied' = [applied EXCEPT
                          !.pc[pid] = "idle", !.file = r.file, !.pid = pid,
                          !.op = "cleanup", !.err[pid] = r.err]
    /\ UNCHANGED <<manager_vars, mapping_vars, thread_vars, service_vars>>

NextLock ==
    \/ \E pid \in Services, path \in LockPaths, io_fails \in {"none", "write", "chmod"} :
           SetupLockFile(pid, path, io_fails)
    \/ \E pid \in Services, fails \in BOOLEAN : InitServer(pid, fails)
    \/ \E pid \in Services : Cleanup(pid)

SpecLock == InitLock /\ [][NextLock]_vars

\* Process p is past setup_lock_file: constructing or running
HoldsLock(a, p) == a.pc[p] \in {"locked", "running"}

\* C25: at most one Service instance holds the lock at a time; a
\* construction started while the lock file exists fails and leaves the
\* file as it is; a construction that fails after it created the lock file
\* leaves no lock file.
C25_SingleInstanceLockFile ==
    [][/\ Cardinality({p \in Services : HoldsLock(applied', p)}) <= 1
       /\ (applied'.op = "setup_lock_file" /\ applied.file # << >>
           /\ applied'.pid \in Services
           /\ applied.pc[applied'.pid] = "idle")
              => /\ applied'.err[applied'.pid] # "none"
                 /\ applied'.file = applied.file
       /\ (/\ applied'.pid \in Services
           /\ applied'.err[applied'.pid] \notin {"none", "nocall"}
           /\ \/ applied'.op = "init"
              \/ /\ applied'.op = "setup_lock_file"
                 /\ applied'.err[applied'.pid] = "OSError")
              => applied'.file = << >>]_vars

\* A construction failed while the other process runs with the lock file
C25_Witness ==
    /\ applied.name = "Service"
    /\ applied.op = "setup_lock_file"
    /\ applied.err[applied.pid] = "FileExistsError"
    /\ \E p \in Services : p # applied.pid /\ applied.pc[p] = "running"

\* ------------------------------------------------------------------------
\* Scheduler.add and Scheduler.remove called on a Scheduler of its own
\* ------------------------------------------------------------------------
\* The configurations of the traffics handed to Scheduler.add: the
\* intervals 3 and 4 are coprime and divide 12; frames of 0 and 1 bytes are
\* 0 and 8 long on the wire; Configuration refuses a tx offset beyond the
\* interval
SchedulerConfigs ==
    {c \in [interface : {Interface("eth0")}, interval : {0, 3, 4, 12},
            size : {0, 1}, txoffset : {0, 1}, vid : Vids, pcp : Pcps] :
        ~(c.txoffset > c.interval)}

InitScheduler ==
    /\ NewManager
    /\ NoMapping
    /\ NoThreads
    /\ test_mode = FALSE
    /\ handled = NoDatagram
    /\ applied = [name |-> "Scheduler", scheduler |-> NewScheduler,
                  op |-> "", traffic |-> BestEffortTraffic, err |-> "nocall"]

\* scheduler.add(Traffic(rate, TrafficType.SCHEDULED, config)), while the
\* list holds fewer than MaxTraffics traffics
Add(config) ==
    /\ Len(applied.scheduler.traffics) < MaxTraffics
    /\ \E traffic \in {Traffic(NewId(applied.scheduler.traffics), config,
                               Len(applied.scheduler.traffics))} :
       \E r \in {SchedulerAdd(applied.scheduler, traffic)} :
           applied' = [applied EXCEPT !.scheduler = r.scheduler, !.op = "add",
                                      !.traffic = traffic, !.err = r.err]
    /\ UNCHANGED <<manager_vars, mapping_vars, thread_vars, service_vars>>

\* scheduler.remove(traffic) of the k-th entry of scheduler.traffics, a
\* scheduled traffic
Remove(k) ==
    /\ k <= Len(applied.scheduler.traffics)
    /\ \E r \in {SchedulerRemove(applied.scheduler, applied.scheduler.traffics[k])} :
           applied' = [applied EXCEPT !.scheduler = r.scheduler, !.op = "remove",
                                      !.traffic = applied.scheduler.traffics[k],
                                      !.err = r.err]
    /\ UNCHANGED <<manager_vars, mapping_vars, thread_vars, service_vars>>

NextScheduler ==
    \/ \E config \in SchedulerConfigs : Add(config)
    \/ \E k \in 2..MaxTraffics : Remove(k)

SpecScheduler == InitScheduler /\ [][NextScheduler]_vars

\* Largest period of the schedules built here
MaxPeriod == 12

\* The least common multiple of a set of naturals: 0 when 0 is one of them,
\* else the least positive number all of them divide
LeastCommonMultiple(numbers) ==
    IF 0 \in numbers THEN 0
    ELSE With({m \in 1..MaxPeriod : \A n \in numbers : m % n = 0}, LAMBDA multiples :
             CHOOSE m \in multiples : \A k \in multiples : m <= k)

\* The intervals of the scheduled traffics of a traffic list
IntervalsOf(traffics) ==
    {t.interval : t \in Range(Scheduled(traffics))}

\* C26: whenever the Scheduler holds at least one scheduled traffic, the
\* period of the schedule is the least common multiple of the intervals of
\* the scheduled traffics in the list; for two coprime intervals it is their
\* product.
C26_PeriodIsLcm ==
    (applied.op \in {"add", "remove"} /\ Scheduled(applied.scheduler.traffics) # <<>>)
        => /\ applied.scheduler.schedule.period
                  = LeastCommonMultiple(IntervalsOf(applied.scheduler.traffics))
           /\ \A a, b \in IntervalsOf(applied.scheduler.traffics) :
                  (IntervalsOf(applied.scheduler.traffics) = {a, b} /\ gcd(a, b) = 1)
                      => applied.scheduler.schedule.period = a * b

\* Traffics with the coprime intervals 3 and 4 are in the list, the later
\* one added after the removal of an earlier traffic, whose id it took; the
\* period is 12
C26_Witness ==
    /\ applied.name = "Scheduler"
    /\ applied.op = "add"
    /\ applied.err = "none"
    /\ Len(applied.scheduler.traffics) = 3
    /\ applied.scheduler.traffics[2].id > applied.scheduler.traffics[3].id
    /\ IntervalsOf(applied.scheduler.traffics) = {3, 4}
    /\ applied.scheduler.schedule.period = 12

\* The indices of the slots of a schedule that refer to the traffic id
SlotsOf(schedule, id) ==
    {i \in 1..Len(schedule.slots) : schedule.slots[i].traffic = id}

\* The schedule holds period / interval slots of the traffic, one at each
\* repetition of its window
RepeatsOverPeriod(schedule, traffic) ==
    /\ schedule.period % traffic.interval = 0
    /\ Cardinality(SlotsOf(schedule, traffic.id))
           = schedule.period \div traffic.interval
    /\ \A k \in 0..((schedule.period \div traffic.interval) - 1) :
           \E i \in SlotsOf(schedule, traffic.id) :
               /\ schedule.slots[i].start = traffic.start + k * traffic.interval
               /\ schedule.slots[i].end
                      = traffic.start + k * traffic.interval + traffic.length

\* C27: for every accepted traffic with start s, length L and interval I,
\* the schedule with period P holds exactly P / I slots of it, one at each
\* [s + k*I, s + k*I + L] for k in 0..P/I-1, and every slot that is not of
\* a scheduled traffic refers to the best effort traffic.  Scheduler.add
\* never returns for a traffic with interval 0, so the accepted traffics are
\* among the scheduled traffics of the list with another interval.
C27_SlotsRepeatOverPeriod ==
    applied.op \in {"add", "remove"} =>
        /\ (applied.op = "add" /\ applied.traffic.interval = 0)
               => applied.err # "none"
        /\ \A t \in Range(Scheduled(applied.scheduler.traffics)) :
               t.interval # 0 => RepeatsOverPeriod(applied.scheduler.schedule, t)
        /\ \A i \in 1..Len(applied.scheduler.schedule.slots) :
               (\A t \in Range(Scheduled(applied.scheduler.traffics)) :
                    applied.scheduler.schedule.slots[i].traffic # t.id)
                   => /\ applied.scheduler.schedule.slots[i].traffic
                             = applied.scheduler.traffics[1].id
                      /\ applied.scheduler.traffics[1].type = "BEST_EFFORT"

\* A traffic of interval 4 was accepted next to one of interval 12: the
\* schedule holds three slots of the former and best effort slots between
C27_Witness ==
    /\ applied.name = "Scheduler"
    /\ applied.op = "add"
    /\ applied.err = "none"
    /\ applied.traffic.interval = 4
    /\ applied.scheduler.schedule.period = 12
    /\ Cardinality(SlotsOf(applied.scheduler.schedule, applied.traffic.id)) = 3
    /\ SlotsOf(applied.scheduler.schedule, 0) # {}

\* The lists that hold the entries of a list in another order
ListOrders(s) ==
    {[i \in 1..Len(s) |-> s[p[i]]] :
        p \in {q \in [1..Len(s) -> 1..Len(s)] :
                  \A i, j \in 1..Len(s) : q[i] = q[j] => i = j}}

\* The schedule built from scratch from the traffics of a list: what a new
\* Scheduler that holds best effort and the scheduled traffics leaves in
\* self.schedule when it builds its schedule
FromScratch(scheduled) ==
    reschedule(<<BestEffortTraffic>> \o scheduled).schedule

\* C28: after any sequence of Scheduler.add and Scheduler.remove calls the
\* schedule is the one built from scratch from the traffics in the list,
\* in whatever order they are taken; with best effort alone the schedule has
\* no slots and period 0.
C28_ScheduleFromScratch ==
    applied.op \in {"add", "remove"} =>
        /\ \A order \in ListOrders(Scheduled(applied.scheduler.traffics)) :
               applied.scheduler.schedule = FromScratch(order)
        /\ Scheduled(applied.scheduler.traffics) = <<>>
               => applied.scheduler.schedule = EmptySchedule

\* The schedule is the one built from the list in the order of the list
ScheduleIsOfList ==
    applied.op \in {"add", "remove"} =>
        applied.scheduler.schedule
            = FromScratch(Scheduled(applied.scheduler.traffics))

\* The first of two scheduled traffics was removed and the schedule of the
\* other one is left
C28_Witness ==
    /\ applied.name = "Scheduler"
    /\ applied.op = "remove"
    /\ applied.err = "none"
    /\ applied.traffic.id = 1
    /\ Len(applied.scheduler.traffics) = 2
    /\ applied.scheduler.traffics[2].id = 2
    /\ applied.scheduler.schedule.period > 0

\* Some traffic occupies two slots with a slot of another traffic between
SplitTraffic(schedule) ==
    \E j, k, i \in 1..Len(schedule.slots) :
        /\ j < k
        /\ k < i
        /\ schedule.slots[j].traffic = schedule.slots[i].traffic
        /\ schedule.slots[k].traffic # schedule.slots[i].traffic

\* C30: Schedule.opens_gate_multiple_times_per_cycle is true exactly when
\* some traffic, best effort included, occupies two slots of the schedule
\* with at least one slot of another traffic between them; it is false for
\* the empty schedule.
C30_OpensGateExactlyWhenSplit ==
    /\ applied.name = "Scheduler"
           => (opens_gate_multiple_times_per_cycle(applied.scheduler.schedule)
                   <=> SplitTraffic(applied.scheduler.schedule))
    /\ ~opens_gate_multiple_times_per_cycle(EmptySchedule)

\* One scheduled traffic sits between two best effort slots: only the best
\* effort gate opens twice
C30_Witness ==
    /\ applied.name = "Scheduler"
    /\ applied.err = "none"
    /\ Len(applied.scheduler.traffics) = 2
    /\ Len(applied.scheduler.schedule.slots) = 3
    /\ applied.scheduler.schedule.slots[1].traffic = 0
    /\ applied.scheduler.schedule.slots[3].traffic = 0
    /\ opens_gate_multiple_times_per_cycle(applied.scheduler.schedule)

\* The instant x lies in the closed window of a slot of a scheduled traffic
InScheduledWindow(schedule, x) ==
    \E slot \in Range(schedule.slots) :
        slot.traffic # BestEffortTraffic.id /\ x \in slot.start..slot.end

\* The InterfaceManager of eth0 before and after the step
ManagerBefore == LookupOrCreate(talker_manager, Interface("eth0"))

ManagerAfter == LookupOrCreate(talker_manager', Interface("eth0"))

\* The Traffic object add_talker builds for the request of the step, with
\* the traffic class assign_and_map returned
RequestedTraffic ==
    Traffic(NewId(ManagerBefore.scheduler.traffics),
            [interval |-> applied'.traffic.interval, size |-> applied'.traffic.size,
             txoffset |-> applied'.stream.txoffset, vid |-> applied'.stream.vid,
             pcp |-> applied'.stream.pcp],
            assign_and_map(ManagerBefore.mapping, applied'.stream.pcp,
                           ManagerBefore.scheduler.traffics).val[2])

\* C29: Schedule.conflicts_with_traffic is true exactly when the start or
\* the end of the new scheduled traffic lies in the closed window of a slot
\* of a scheduled traffic, and false for best effort traffic; when it is
\* true Scheduler.add raises ValueError and leaves the traffic list and the
\* schedule, and add_talker leaves the mapping with the socket priority,
\* the traffic class and the queue given back.
C29_ConflictRefusedAndRolledBack ==
    [][(/\ applied'.err # "nocall"
        /\ ~(applied'.stream.txoffset > applied'.traffic.interval)
        /\ (applied' # applied \/ talker_manager' # talker_manager)) =>
        /\ conflicts_with_traffic(ManagerBefore.scheduler.schedule,
                                  ManagerBefore.scheduler.traffics, RequestedTraffic)
               <=> \/ InScheduledWindow(ManagerBefore.scheduler.schedule,
                                        RequestedTraffic.start)
                   \/ InScheduledWindow(ManagerBefore.scheduler.schedule,
                                        RequestedTraffic.end)
        /\ ~conflicts_with_traffic(ManagerBefore.scheduler.schedule,
                                   ManagerBefore.scheduler.traffics,
                                   BestEffortTraffic)
        /\ (\/ InScheduledWindow(ManagerBefore.scheduler.schedule,
                                 RequestedTraffic.start)
            \/ InScheduledWindow(ManagerBefore.scheduler.schedule,
                                 RequestedTraffic.end))
               => /\ SchedulerAdd(ManagerBefore.scheduler, RequestedTraffic)
                         = [scheduler |-> ManagerBefore.scheduler,
                            err |-> "ValueError"]
                  /\ applied'.err = "ValueError"
                  /\ ManagerAfter.scheduler = ManagerBefore.scheduler
                  /\ ManagerAfter.mapping = ManagerBefore.mapping]_vars

\* A stream whose window starts just before the window of a scheduled
\* traffic was refused, and the socket priorities are those of the accepted
\* traffics
C29_Witness ==
    /\ applied.name = "add_talker"
    /\ applied.err = "ValueError"
    /\ applied.stream.txoffset = 19
    /\ "eth0" \in DOMAIN talker_manager
    /\ \E t \in Range(Scheduled(talker_manager["eth0"].scheduler.traffics)) :
           t.start = 20
    /\ Len(talker_manager["eth0"].mapping.available_socket_prios)
           = IntelMgbeEhl_NUM_TX_QUEUES
                 - Len(talker_manager["eth0"].scheduler.traffics)

\* ------------------------------------------------------------------------
\* The slots of the schedules
\* ------------------------------------------------------------------------
\* C31: every slot of a schedule built from accepted configurations starts
\* before it ends and its length is end - start, for every frame size and
\* interval TrafficSpecification accepts, size 0 and interval 0 included.
C31_SlotsStartBeforeEnd ==
    applied.name = "Scheduler" =>
        \A slot \in Range(applied.scheduler.schedule.slots) :
            /\ slot.start < slot.end
            /\ slot.length = slot.end - slot.start

\* The lengths of the slots are end - start
SlotLengths ==
    applied.name = "Scheduler" =>
        \A slot \in Range(applied.scheduler.schedule.slots) :
            slot.length = slot.end - slot.start

\* Slots start before they end in the schedules without frames of 0 bytes
SlotsOfFramesStartBeforeEnd ==
    (/\ applied.name = "Scheduler"
     /\ \A t \in Range(Scheduled(applied.scheduler.traffics)) : t.size > 0)
        => \A slot \in Range(applied.scheduler.schedule.slots) :
               slot.start < slot.end

\* A traffic with frames of 0 bytes was accepted and has a slot
C31_Witness ==
    /\ applied.name = "Scheduler"
    /\ applied.op = "add"
    /\ applied.err = "none"
    /\ applied.traffic.size = 0
    /\ SlotsOf(applied.scheduler.schedule, applied.traffic.id) # {}

\* ------------------------------------------------------------------------
\* The fixed maps of the Mapping
\* ------------------------------------------------------------------------
\* A mapping without its three free-lists
WithoutFreeLists(m) ==
    [m EXCEPT !.available_socket_prios = <<>>, !.available_tcs = <<>>,
              !.available_tx_queues = <<>>]

\* C32: no sequence of add_talker calls, successful or failing, changes the
\* fixed maps of the Mapping: tc_to_soprio is [0, 7, 8, ..., 7+Qtx-2],
\* soprio_to_pcp is {0:0, 7:1, 8:2, ...}, tc_to_hwq has one queue per
\* traffic class at the offset of the class; only the free-lists change.
C32_FixedMapsNeverChange ==
    \A n \in DOMAIN talker_manager :
        \E qtx \in {num_tx_queues(talker_manager[n].interface.device)} :
            /\ talker_manager[n].mapping.tc_to_soprio
                   = [tc \in 1..qtx |-> IF tc = 1 THEN 0 ELSE 7 + tc - 2]
            /\ talker_manager[n].mapping.soprio_to_pcp
                   = [soprio \in {0} \cup 7..(7 + qtx - 2) |->
                         IF soprio = 0 THEN 0 ELSE soprio - 6]
            /\ talker_manager[n].mapping.tc_to_hwq
                   = [tc \in 1..qtx |-> [offset |-> tc - 1, num_queues |-> 1]]
            /\ WithoutFreeLists(talker_manager[n].mapping)
                   = WithoutFreeLists(MappingFixed(talker_manager[n].interface.device))

\* A request failed on an interface that holds two accepted talkers
C32_Witness ==
    /\ "eth0" \in DOMAIN talker_manager
    /\ last.err # "none"
    /\ last.err # "nocall"
    /\ Len(talker_manager["eth0"].scheduler.traffics) = 3
    /\ Len(talker_manager["eth0"].mapping.available_tcs) = 5

\* ------------------------------------------------------------------------
\* unmap_and_free while no stream holds resources
\* ------------------------------------------------------------------------
\* The triples handed to unmap_and_free: what the first and the second
\* assign_and_map of a MappingFixed return
UnheldTriples == {<<7, 1, 1>>, <<8, 2, 2>>}

\* mapping.unmap_and_free(soprio, tc, queue) while no stream holds
\* resources
UnmapAndFreeUnheld(triple) ==
    \E r \in {unmap_and_free(mapping, triple[1], triple[2], triple[3])} :
        /\ ncalls < MaxCalls
        /\ held = <<>>
        /\ mapping' = r.m
        /\ mcall' = [op |-> "unmap_and_free", err |-> r.err, val |-> triple]
        /\ ncalls' = ncalls + 1
        /\ UNCHANGED <<held, listed, lifo, manager_vars, thread_vars, service_vars,
                       function_vars>>

NextUnheld ==
    \/ \E pcp \in Pcps : AssignAndMap(pcp)
    \/ \E i \in 1..Len(held), stays \in BOOLEAN : UnmapAndFree(i, stays)
    \/ \E triple \in UnheldTriples : UnmapAndFreeUnheld(triple)

SpecUnheld == InitMapping /\ [][NextUnheld]_vars

\* The mapping as its constructor builds it
FreshMapping(m) ==
    CASE m.variant = "MappingFixed" -> MappingFixed(m.device)
      [] m.variant = "MappingMultiqueueTrafficClassExclusive" ->
             MappingMultiqueueTrafficClassExclusive(m.device)
      [] m.variant = "MappingFlexible" -> MappingFlexible(m.device)

\* The list holds no value twice and no more items than the pool
WithinPool(list, pool) ==
    /\ Len(list) <= Len(pool)
    /\ \A i, j \in 1..Len(list) : list[i] = list[j] => i = j

\* C33: unmap_and_free issued while no stream holds resources raises and
\* changes nothing, on every Mapping variant; no free-list ever holds more
\* items than its initial pool or the same value twice.
C33_ReleaseWithoutStreamsRejected ==
    [][/\ (mcall'.op = "unmap_and_free" /\ held = <<>> /\ ncalls' = ncalls + 1)
              => /\ mcall'.err # "none"
                 /\ mapping' = mapping
       /\ ncalls' = ncalls + 1
              => /\ WithinPool(mapping'.available_socket_prios,
                               FreshMapping(mapping').available_socket_prios)
                 /\ WithinPool(mapping'.available_tcs,
                               FreshMapping(mapping').available_tcs)
                 /\ WithinPool(mapping'.available_tx_queues,
                               FreshMapping(mapping').available_tx_queues)]_vars

\* The release is refused and changes nothing on the other two variants
ReleaseRejectedUnlessFixed ==
    [][(/\ mcall'.op = "unmap_and_free"
        /\ held = <<>>
        /\ ncalls' = ncalls + 1
        /\ mapping.variant # "MappingFixed")
           => /\ mcall'.err = "IndexError"
              /\ mapping' = mapping]_vars

\* The exclusive mapping refused a release while no stream held resources
C33_Witness ==
    /\ mapping # <<>>
    /\ mapping.variant = "MappingMultiqueueTrafficClassExclusive"
    /\ mcall.op = "unmap_and_free"
    /\ mcall.err = "IndexError"
    /\ held = <<>>
    /\ mapping = FreshMapping(mapping)

\* ------------------------------------------------------------------------
\* The queue ranges of the flexible mapping
\* ------------------------------------------------------------------------
\* One MappingFlexible of its own, with the number of stream classes that
\* currently have a queue
InitQueues ==
    /\ NewManager /\ NoMapping /\ NoThreads
    /\ test_mode = FALSE
    /\ handled = NoDatagram
    /\ \E device \in {"IntelI225", "IntelMgbeEhl"} :
           applied = [name |-> "Queues", mapping |-> MappingFlexible(device),
                      mapped |-> 0, ncalls |-> 0, op |-> "", err |-> "nocall"]

\* mapping.assign_queue_and_map(tc)
AssignQueueAndMap ==
    \E r \in {Flexible_assign_queue_and_map(applied.mapping,
                                            Len(applied.mapping.tc_to_hwq))} :
        /\ applied.name = "Queues"
        /\ applied.ncalls < MaxCalls
        /\ applied' = [applied EXCEPT
                         !.mapping = r.m,
                         !.mapped = IF r.err = "none" THEN @ + 1 ELSE @,
                         !.ncalls = @ + 1,
                         !.op = "assign_queue_and_map",
                         !.err = r.err]
        /\ UNCHANGED <<manager_vars, mapping_vars, thread_vars, service_vars>>

\* mapping.unmap_and_free_queue(tc)
UnmapAndFreeQueue ==
    \E r \in {Flexible_unmap_and_free_queue(applied.mapping,
                                            Len(applied.mapping.tc_to_hwq) - 1)} :
        /\ applied.name = "Queues"
        /\ applied.ncalls < MaxCalls
        /\ applied' = [applied EXCEPT
                         !.mapping = r.m,
                         !.mapped = IF r.err = "none" THEN @ - 1 ELSE @,
                         !.ncalls = @ + 1,
                         !.op = "unmap_and_free_queue",
                         !.err = r.err]
        /\ UNCHANGED <<manager_vars, mapping_vars, thread_vars, service_vars>>

NextQueues ==
    \/ AssignQueueAndMap
    \/ UnmapAndFreeQueue

SpecQueues == InitQueues /\ [][NextQueues]_vars

\* The queues an entry of tc_to_hwq designates
QueuesOf(entry) == entry.offset .. (entry.offset + entry.num_queues - 1)

\* The entries designate pairwise disjoint, non-empty ranges that together
\* are the queues 0..Qtx-1
QueueRangesPartition(m) ==
    /\ \A i \in 1..Len(m.tc_to_hwq) : m.tc_to_hwq[i].num_queues >= 1
    /\ \A i, j \in 1..Len(m.tc_to_hwq) :
           i # j => QueuesOf(m.tc_to_hwq[i]) \cap QueuesOf(m.tc_to_hwq[j]) = {}
    /\ UNION {QueuesOf(m.tc_to_hwq[i]) : i \in 1..Len(m.tc_to_hwq)}
           = 0..(num_tx_queues(m.device) - 1)

\* C34: in the flexible mapping, after any sequence of assign_queue_and_map
\* and unmap_and_free_queue calls the entries of tc_to_hwq are pairwise
\* disjoint ranges covering the queues 0..Qtx-1, best effort keeps at least
\* one queue (the assignment that would take its last queue raises
\* IndexError), as many releases as assignments restore the single initial
\* entry, and a release with no stream class mapped raises IndexError.
C34_FlexibleQueueRanges ==
    /\ [](/\ QueueRangesPartition(applied.mapping)
          /\ applied.mapping.tc_to_hwq[1].offset = 0
          /\ Len(applied.mapping.tc_to_hwq) = applied.mapped + 1
          /\ applied.mapped = 0
                 => applied.mapping.tc_to_hwq
                        = <<[offset |-> 0,
                             num_queues |-> num_tx_queues(applied.mapping.device)]>>)
    /\ [][/\ applied'.op = "assign_queue_and_map"
                 => (applied'.err = "IndexError"
                         <=> applied.mapping.tc_to_hwq[1].num_queues = 1)
          /\ applied'.op = "unmap_and_free_queue"
                 => (applied'.err = "IndexError" <=> applied.mapped = 0)
          /\ applied'.err \in {"none", "IndexError"}
          /\ applied'.err = "IndexError"
                 => applied'.mapping = applied.mapping]_vars

\* Every queue but one was given to a stream class, the next assignment was
\* refused, and releases followed
C34_Witness ==
    /\ applied.mapping.device = "IntelI225"
    /\ applied.op = "unmap_and_free_queue"
    /\ applied.err = "none"
    /\ applied.mapped = 0
    /\ applied.ncalls = 7
    /\ applied.mapping.available_tx_queues # MappingFlexible("IntelI225").available_tx_queues

\* ------------------------------------------------------------------------
\* The exception of a failing configuration command
\* ------------------------------------------------------------------------
\* Requests the Scheduler and the Mapping can accept
FailureConfigs == {c \in Configs({"eth0"}) : c.interval > 0 /\ c.size > 0}

InitFailure ==
    /\ NewManager /\ NoMapping /\ NoThreads
    /\ test_mode = FALSE
    /\ handled = NoDatagram
    /\ applied = [name |-> "SystemConfigurator.setup", sysfail |-> "none", setup |-> FALSE]

\* Manager.add_talker(config) while the command sysfail of
\* SystemConfigurator.setup fails: CommandEthtool.run ("device"),
\* CommandTc.run ("qdisc") or CommandIp.run ("vlan") of systemconf raises
\* subprocess.CalledProcessError on a non-zero return code; "none": every
\* command succeeds.  setup tells whether the request gets as far as
\* SystemConfigurator.setup, i.e. whether it is accepted when no command
\* fails.
AddTalkerCommandFails(config, sysfail) ==
    /\ Len(LookupOrCreate(talker_manager, config.interface).scheduler.traffics)
           <= MaxTraffics
    /\ ManagerAddTalker(config, sysfail)
    /\ applied' = [applied EXCEPT
                     !.sysfail = sysfail,
                     !.setup = add_talker(LookupOrCreate(talker_manager,
                                                         config.interface),
                                          config, "none").err = "none"]
    /\ UNCHANGED <<mapping_vars, thread_vars, service_vars>>

NextFailure ==
    \E config \in FailureConfigs, sysfail \in SysFails :
        AddTalkerCommandFails(config, sysfail)

SpecFailure == InitFailure /\ [][NextFailure]_vars

\* C35: when the device, the qdisc or the VLAN command fails with
\* subprocess.CalledProcessError during add_talker, Manager.add_talker
\* raises subprocess.CalledProcessError to its caller.
C35_CalledProcessErrorSurfaced ==
    (applied.setup /\ applied.sysfail \in {"device", "qdisc", "vlan"})
        => last.err = "CalledProcessError"

\* The failure is raised to the caller, as some exception
FailureNotSwallowed ==
    (applied.setup /\ applied.sysfail \in {"device", "qdisc", "vlan"})
        => (last.err = "RuntimeError" /\ last.vlan_interface = "")

\* The qdisc command failed in the first request of a new Manager
C35_Witness ==
    /\ applied.setup
    /\ applied.sysfail = "qdisc"
    /\ last.err # "none"
    /\ Len(talker_manager["eth0"].scheduler.traffics) = 1
    /\ talker_manager["eth0"].system.steps
           = <<Step("device", "setup"), Step("qdisc", "setup")>>

\* ------------------------------------------------------------------------
\* Scheduler.add that raises
\* ------------------------------------------------------------------------
\* C36: Scheduler.add is all-or-nothing on its own: if it raises for any
\* reason (conflict, an overlap detected only while padding, a zero
\* interval), the Scheduler's traffic list and its schedule (slots and
\* period) are the same as before the call.
C36_SchedulerAddAllOrNothing ==
    [][(applied'.op = "add" /\ applied'.err \notin {"none", "nocall"})
           => applied'.scheduler = applied.scheduler]_vars

\* An add refused for a conflict leaves the Scheduler as it was
ConflictLeavesScheduler ==
    [][(applied'.op = "add" /\ applied'.err = "ValueError")
           => applied'.scheduler = applied.scheduler]_vars

\* An add raised after the conflict test let the traffic through, on a
\* Scheduler that holds an accepted traffic; the traffic is in the list
C36_Witness ==
    /\ applied.op = "add"
    /\ applied.err \in {"ZeroDivisionError", "AssertionError"}
    /\ Len(applied.scheduler.traffics) = 3
    /\ applied.scheduler.traffics[3] = applied.traffic
    /\ applied.scheduler.traffics[2].interval > 0

\* ------------------------------------------------------------------------
\* The Scheduler's traffics and the Mapping's free-lists
\* ------------------------------------------------------------------------
\* How many times the list holds the value
Count(list, v) == Cardinality({i \in 1..Len(list) : list[i] = v})

\* The scheduled traffics of the InterfaceManager
ScheduledOf(im) == Scheduled(im.scheduler.traffics)

\* The scheduled traffics carry pairwise distinct traffic classes
DistinctTrafficClasses(im) ==
    \A i, j \in 1..Len(ScheduledOf(im)) :
        ScheduledOf(im)[i].tc = ScheduledOf(im)[j].tc => i = j

\* A pool value is in its free-list exactly once, unless a scheduled
\* traffic holds it: then it is not in the free-list
FreeListsComplementTraffics(im) ==
    LET fresh == NewMapping(im.interface.device)
        tcs == {t.tc : t \in Range(ScheduledOf(im))}
    IN  /\ \A tc \in Range(fresh.available_tcs) :
               Count(im.mapping.available_tcs, tc)
                   = IF tc \in tcs THEN 0 ELSE 1
        /\ \A soprio \in Range(fresh.available_socket_prios) :
               Count(im.mapping.available_socket_prios, soprio)
                   = IF \E tc \in tcs : im.mapping.tc_to_soprio[tc + 1] = soprio
                     THEN 0 ELSE 1
        /\ \A queue \in Range(fresh.available_tx_queues) :
               Count(im.mapping.available_tx_queues, queue)
                   = IF \E tc \in tcs : im.mapping.tc_to_hwq[tc + 1].offset = queue
                     THEN 0 ELSE 1

\* C37: between requests the scheduled traffics of the Scheduler are exactly
\* the talkers accepted and not rolled back (a request that fails adds
\* none, an accepted one adds its own), they carry pairwise distinct
\* traffic classes, and the socket priority, traffic class and queue of
\* each are absent from the free-lists while every other pool value is in
\* its free-list exactly once.
C37_TrafficsAreAcceptedTalkers ==
    [][/\ last'.err # "none"
              => After.scheduler.traffics = Before.scheduler.traffics
       /\ last'.err = "none"
              => /\ Len(After.scheduler.traffics)
                        = Len(Before.scheduler.traffics) + 1
                 /\ SubSeq(After.scheduler.traffics, 1,
                           Len(Before.scheduler.traffics))
                        = Before.scheduler.traffics
       /\ DistinctTrafficClasses(After)
       /\ FreeListsComplementTraffics(After)]_vars

\* A request that is accepted, or refused and rolled back, keeps what the
\* claim states: only the requests whose Scheduler.add raised from
\* reschedule break it
RolledBackRequestsKeepTraffics ==
    [][(/\ last'.err \notin {"ZeroDivisionError", "AssertionError"}
        /\ DistinctTrafficClasses(Before)
        /\ FreeListsComplementTraffics(Before))
           => /\ last'.err # "none"
                     => After.scheduler.traffics = Before.scheduler.traffics
              /\ last'.err = "none"
                     => Len(After.scheduler.traffics)
                            = Len(Before.scheduler.traffics) + 1
              /\ DistinctTrafficClasses(After)
              /\ FreeListsComplementTraffics(After)]_vars

\* Two refused requests left their traffics in the Scheduler, both with
\* the traffic class that is back in the free-list
C37_Witness ==
    /\ "eth0" \in DOMAIN talker_manager
    /\ last.err \in {"ZeroDivisionError", "AssertionError"}
    /\ Len(talker_manager["eth0"].scheduler.traffics) = 3
    /\ talker_manager["eth0"].scheduler.traffics[2].tc
           = talker_manager["eth0"].scheduler.traffics[3].tc
    /\ Count(talker_manager["eth0"].mapping.available_tcs,
             talker_manager["eth0"].scheduler.traffics[3].tc) = 1

\* ------------------------------------------------------------------------
\* The maps of the streams that hold resources
\* ------------------------------------------------------------------------
\* The maps send the socket priority of the triple to its traffic class and
\* the traffic class to exactly its queue
MapsAgreeWith(m, triple) ==
    /\ soprio_to_tc(m).err = "none"
    /\ soprio_to_tc(m).mapping[triple[1] + 1] = triple[2]
    /\ triple[2] + 1 <= Len(m.tc_to_hwq)
    /\ m.tc_to_hwq[triple[2] + 1] = [offset |-> triple[3], num_queues |-> 1]

\* C38: for every stream that currently holds resources, on every Mapping
\* variant, soprio_to_tc[soprio] is the traffic class given to the stream
\* and tc_to_hwq[that class] designates exactly the queue assign_and_map
\* returned for it, also after other streams were added or released.
C38_MapsAgreeWithHeldStreams ==
    \A i \in 1..Len(held) : MapsAgreeWith(mapping, held[i])

\* The two variants with fixed maps keep the maps and the streams in
\* agreement
FixedMapsAgreeWithHeldStreams ==
    mapping.variant # "MappingFlexible"
        => \A i \in 1..Len(held) : MapsAgreeWith(mapping, held[i])

\* The flexible mapping gave resources to a second stream: the queue of
\* the first one is no longer the one tc_to_hwq designates for its class
C38_Witness ==
    /\ mapping.variant = "MappingFlexible"
    /\ mcall.op = "assign_and_map"
    /\ mcall.err = "none"
    /\ Len(held) = 2
    /\ mapping.tc_to_hwq[held[1][2] + 1].offset # held[1][3]

\* ------------------------------------------------------------------------
\* Two interfaces
\* ------------------------------------------------------------------------
\* Requests for eth0 and eth1: accepted ones, conflicting ones, the zero
\* interval
InterfaceConfigs ==
    {c \in Configs({"eth0", "eth1"}) :
        c.size = 1 /\ c.txoffset \in {0, 12} /\ c.interval \in {0, 20}}

NextInterfaces ==
    \E config \in InterfaceConfigs, sysfail \in {"none", "vlan"} :
        AddTalker(config, sysfail)

SpecInterfaces == Init /\ [][NextInterfaces]_vars

\* s is the beginning of t
IsPrefix(s, t) == Len(s) <= Len(t) /\ SubSeq(t, 1, Len(s)) = s

\* C39: Manager.add_talker on interface A, whether it succeeds or fails,
\* never changes the InterfaceManager (Mapping, Scheduler, configured VIDs)
\* of any other interface B, and the InterfaceManager of an interface is
\* created at its first reference and never replaced afterwards.
C39_InterfacesAreIsolated ==
    [][/\ DOMAIN talker_manager' = DOMAIN talker_manager \cup {last'.name}
       /\ \A b \in DOMAIN talker_manager :
              b # last'.name => talker_manager'[b] = talker_manager[b]
       /\ \A a \in DOMAIN talker_manager :
              /\ talker_manager'[a].interface = talker_manager[a].interface
              /\ IsPrefix(talker_manager[a].scheduler.traffics,
                          talker_manager'[a].scheduler.traffics)
              /\ talker_manager[a].system.vlans \subseteq talker_manager'[a].system.vlans
              /\ last'.err # "none" =>
                     talker_manager'[a].mapping = talker_manager[a].mapping]_vars

\* A request for eth1 failed while eth0 carried a talker, and eth1 carries
\* one accepted earlier
C39_Witness ==
    /\ DOMAIN talker_manager = {"eth0", "eth1"}
    /\ last.name = "eth1"
    /\ last.err # "none"
    /\ Len(talker_manager["eth0"].scheduler.traffics) = 2
    /\ Len(talker_manager["eth1"].scheduler.traffics) >= 2
    /\ talker_manager["eth0"].system.vlans = {3}

\* ------------------------------------------------------------------------
\* Allocate-then-roll-back cycles on the flexible mapping
\* ------------------------------------------------------------------------
\* How many assign_and_map calls a behaviour makes
MaxAssigned == 10

\* One MappingFlexible of its own and the triples of the streams that hold
\* resources
InitCycles ==
    /\ NewManager /\ NoMapping /\ NoThreads
    /\ test_mode = FALSE
    /\ handled = NoDatagram
    /\ applied = [name |-> "Cycles", mapping |-> MappingFlexible("IntelMgbeEhl"),
                  streams |-> <<>>, traffics |-> <<>>, assigned |-> 0,
                  op |-> "", err |-> "nocall",
                  val |-> <<>>]

\* soprio, tc, queue = mapping.assign_and_map(pcp, scheduler.traffics)
AllocateStream(pcp) ==
    \E r \in {assign_and_map(applied.mapping, pcp, TrafficsOf(applied.traffics))} :
        /\ applied.name = "Cycles"
        /\ applied.assigned < MaxAssigned
        /\ applied' = [applied EXCEPT
                         !.mapping = r.m,
                         !.streams = IF r.err = "none" THEN Append(@, r.val) ELSE @,
                         !.traffics = IF r.err = "none"
                                      THEN Append(@, ListedEntry(r.val[2])) ELSE @,
                         !.assigned = @ + 1,
                         !.op = "assign_and_map",
                         !.err = r.err,
                         !.val = r.val]
        /\ UNCHANGED <<manager_vars, mapping_vars, thread_vars, service_vars>>

\* mapping.unmap_and_free(soprio, tc, queue) of the stream that got its
\* resources last: the roll-back of add_talker.  stays: the roll-back is the
\* one after a Scheduler.add that raised after its append, which leaves the
\* traffic in scheduler.traffics
RollBackStream(stays) ==
    /\ applied.name = "Cycles"
    /\ Len(applied.streams) > 0
    /\ stays => (applied.op = "assign_and_map" /\ applied.err = "none")
    /\ \E triple \in {applied.streams[Len(applied.streams)]} :
       \E r \in {unmap_and_free(applied.mapping, triple[1], triple[2], triple[3])} :
           applied' = [applied EXCEPT
                         !.mapping = r.m,
                         !.streams = IF r.err = "none"
                                     THEN SubSeq(@, 1, Len(@) - 1) ELSE @,
                         !.traffics = IF r.err = "none"
                                      THEN Unlisted(@, Len(applied.streams), stays)
                                      ELSE @,
                         !.op = "unmap_and_free",
                         !.err = r.err,
                         !.val = triple]
    /\ UNCHANGED <<manager_vars, mapping_vars, thread_vars, service_vars>>

NextCycles ==
    \/ \E pcp \in Pcps : AllocateStream(pcp)
    \/ \E stays \in BOOLEAN : RollBackStream(stays)

SpecCycles == InitCycles /\ [][NextCycles]_vars

\* No two traffic classes share a socket priority
SocketPrioritiesDistinct ==
    \A tc, other \in 1..Len(applied.mapping.tc_to_soprio) :
        applied.mapping.tc_to_soprio[tc] = applied.mapping.tc_to_soprio[other]
            => tc = other

\* C40: in the flexible mapping, after any sequence of assign_and_map and
\* unmap_and_free calls, every socket priority handed out or recorded in
\* tc_to_soprio is smaller than 16, so the 16-entry soprio_to_tc view can
\* be computed, and no two traffic classes share a socket priority.
C40_SocketPrioritiesBelow16 ==
    /\ \A i \in 1..Len(applied.streams) : applied.streams[i][1] < 16
    /\ \A tc \in 1..Len(applied.mapping.tc_to_soprio) :
           applied.mapping.tc_to_soprio[tc] < 16
    /\ soprio_to_tc(applied.mapping).err = "none"
    /\ SocketPrioritiesDistinct

\* The tenth allocation after nine roll-backs was accepted, with no other
\* stream holding resources
C40_Witness ==
    /\ applied.op = "assign_and_map"
    /\ applied.err = "none"
    /\ applied.assigned = 10
    /\ Len(applied.streams) = 1
    /\ applied.val[1] >= 16
====
